---- MODULE Spec2Model ----
(***************************************************************************)
(* Autonomous Trading Risk Governance Engine.                              *)
(*                                                                         *)
(* Model of Backend/app/services/risk_management_service.py                *)
(* (RiskManagementService) and of the route handlers of                    *)
(* Backend/app/advanced_features_routes.py that drive it, and of           *)
(* Backend/app/services/subscription_service.py (SubscriptionService),     *)
(* the feature gate the routes consult.                                    *)
(*                                                                         *)
(* The service runs inside one asyncio event loop.  None of its methods    *)
(* awaits anything that suspends, so every service method, and every run   *)
(* of route code between two suspending awaits, is one atomic step.        *)
(*                                                                         *)
(* Numbers.  Floats that carry prices or ledger amounts are two-limb       *)
(* fixed-point records [u, s] of value u * 1e-4 + s * 1e-9, with |s| kept  *)
(* far below 1e5, so that comparison, sum, difference and scaling by small *)
(* integers are exact.  The s limb holds what round(value, 8) removes.     *)
(* Percentages that never meet a price are integers in tenths of a         *)
(* percent; consensus scores and coverage ratios are integers in 1/100.    *)
(***************************************************************************)
EXTENDS Integers, Sequences, FiniteSets, TLC

VARIABLES
    risk_manager,   \* the RiskManagementService instance of the routes module
    now,            \* datetime.now(), in seconds
    inflight,       \* execute requests suspended in the broker call
    last,           \* what the latest handler returned
    ledger,         \* history: tokens issued, broker hand-offs, kill-switch blocks
    subscription_service    \* the SubscriptionService instance of the routes

vars == <<risk_manager, now, inflight, last, ledger, subscription_service>>

None == "None"          \* a missing string
Nothing == <<>>         \* a missing value (Optional[...] = None, absent key)
Some(x) == <<x>>
Get(opt) == opt[1]
NoToken == 0            \* explain_token absent or empty

\* ------------------------------------------------------------------ bounds
\* clock steps, recorded trades and closes of a run, in total
MaxEvents == 3
\* explain tokens stored in a run
MaxTokens == 1

\* ------------------------------------------------------- program constants
explain_token_ttl_seconds == 300
AnomalyPauseSeconds == 7200
WindowSize == 8
DriftMinObservations == 4
DriftRange == 28
AnomalyCoverage == 45
SecondsPerWeek == 604800
SecondsPerDay == 86400

\* ---------------------------------------------------------------- numbers
Num(u, s) == [u |-> u, s |-> s]
Zero == Num(0, 0)
Units(n) == Num(n * 10000, 0)
NumAdd(a, b) == Num(a.u + b.u, a.s + b.s)
NumSub(a, b) == Num(a.u - b.u, a.s - b.s)
NumNeg(a) == Num(0 - a.u, 0 - a.s)
NumScale(k, a) == Num(k * a.u, k * a.s)
NumSign(a) == IF a.u > 0 THEN 1
              ELSE IF a.u < 0 THEN -1
              ELSE IF a.s > 0 THEN 1
              ELSE IF a.s < 0 THEN -1
              ELSE 0
NumLT(a, b) == NumSign(NumSub(a, b)) < 0
NumLE(a, b) == NumSign(NumSub(a, b)) <= 0
NumEQ(a, b) == NumSign(NumSub(a, b)) = 0
NumAbs(a) == IF NumSign(a) < 0 THEN NumNeg(a) ELSE a

\* round(value, 8) of a float: the 1e-9 limb is rounded to a multiple of ten.
\* No input of the model has a limb ending in 5 (a decimal tie is decided by
\* the binary expansion of the float, which the limbs do not carry).
Round8(a) ==
    LET r == a.s % 10
    IN  Num(a.u, IF r < 5 THEN a.s - r ELSE a.s - r + 10)

\* ------------------------------------------------------------------ users
Users == {"u1", "u2"}

Levels == {"manual", "assisted", "guarded_auto", "full_auto"}

Rank(level) ==
    CASE level = "manual" -> 0
      [] level = "assisted" -> 1
      [] level = "guarded_auto" -> 2
      [] level = "full_auto" -> 3

\* pause_reason strings, without the figures the code formats into them
BudgetPauseReasons ==
    {"Budget pause: daily loss budget breached",
     "Budget pause: weekly loss budget breached",
     "Budget pause: drawdown budget breached"}

AnomalyPauseReasons ==
    {"Anomaly pause: high volatility + unstable model consensus",
     "Anomaly pause: high volatility with low source coverage",
     "Anomaly pause: model drift detected in consensus signals"}

\* ------------------------------------------------------------ dataclasses
RiskLimits(size, daily, open, dd) ==
    [max_trade_size |-> size, daily_loss_limit |-> daily,
     max_open_positions |-> open, max_drawdown_percent |-> dd,
     mandatory_stop_loss |-> TRUE, mandatory_take_profit |-> TRUE,
     kill_switch_enabled |-> TRUE]

DailyTradingStats(date) ==
    [date |-> date, total_trades |-> 0, winning_trades |-> 0, losing_trades |-> 0,
     total_profit_loss |-> Zero, max_drawdown |-> 0,
     kill_switch_triggered |-> FALSE]

ProbationPolicy ==
    [min_paper_trades |-> 20, min_win_rate_percent |-> 550,
     max_drawdown_percent |-> 120, min_active_days |-> 5]

RiskBudget ==
    [max_risk_per_trade_percent |-> 10,
     daily_loss_limit_percent |-> Units(3),
     weekly_loss_limit_percent |-> Units(8),
     max_drawdown_percent |-> 120]

AutonomyState ==
    [level |-> "assisted", probation_passed |-> FALSE, paused |-> FALSE,
     pause_reason |-> None, pause_until |-> Nothing,
     last_probation_check |-> Nothing,
     recent_consensus_scores |-> <<>>]

\* ------------------------------------------------------- small dictionaries
\* a value computed once and then used under a name: LET x == v IN F(x)
Bind(v, F(_)) == CHOOSE r \in {F(x) : x \in {v}} : TRUE

DictGet(d, k, fallback) == IF k \in DOMAIN d THEN d[k] ELSE fallback

DictPut(d, k, v) == [x \in (DOMAIN d) \cup {k} |-> IF x = k THEN v ELSE d[x]]

DictPop(d, k) == [x \in (DOMAIN d) \ {k} |-> d[x]]

WithUser(rm, field, user_id, value) ==
    [rm EXCEPT ![field] = [@ EXCEPT ![user_id] = value]]

\* strftime("%Y-W%U") of the clock, as a week number
_get_week_key(t) == t \div SecondsPerWeek

\* -------------------------------------------------- Explain-Token Manager
\* variant: stop_loss left out of the key list
normalize_without_stop_loss(trade_params) ==
    [pair |-> trade_params.pair,
     action |-> trade_params.action,
     entry_price |-> Round8(trade_params.entry_price),
     stop_loss |-> Zero,
     take_profit |-> Round8(trade_params.take_profit),
     position_size |-> trade_params.position_size,
     risk_percent |-> trade_params.risk_percent,
     is_paper_trade |-> trade_params.is_paper_trade]

_normalize_trade_fingerprint_payload(trade_params) ==
    [pair |-> trade_params.pair,
     action |-> trade_params.action,
     entry_price |-> Round8(trade_params.entry_price),
     stop_loss |-> Round8(trade_params.stop_loss),
     take_profit |-> Round8(trade_params.take_profit),
     position_size |-> trade_params.position_size,
     risk_percent |-> trade_params.risk_percent,
     is_paper_trade |-> trade_params.is_paper_trade]

\* hashlib.sha256 over the sorted compact JSON of the normalized payload; the
\* hash is taken as injective, so the fingerprint is the normalized payload.
_trade_fingerprint(trade_params) ==
    _normalize_trade_fingerprint_payload(trade_params)

\* variant: a token is stored whatever the guard decided
issue_without_guard_check(rm, user_id, trade_params, guard_passed, token, t) ==
    LET is_paper_trade == trade_params.is_paper_trade
        required == rm.require_explain_token /\ ~is_paper_trade
    IN  IF ~required
        THEN [rm |-> rm, required |-> FALSE, token |-> NoToken]
        ELSE [rm |-> [rm EXCEPT !.pending_explain_tokens =
                         DictPut(@, token,
                                 [user_id |-> user_id,
                                  fingerprint |-> _trade_fingerprint(trade_params),
                                  created_at |-> t,
                                  expires_at |-> t + explain_token_ttl_seconds,
                                  used |-> FALSE,
                                  used_at |-> Nothing])],
              required |-> TRUE, token |-> token]

\* token is the value secrets.token_urlsafe(24) returns: never seen before.
issue_explain_execution_token(rm, user_id, trade_params, guard_passed, token, t) ==
    LET is_paper_trade == trade_params.is_paper_trade
        required == rm.require_explain_token /\ ~is_paper_trade
    IN  IF ~required
        THEN [rm |-> rm, required |-> FALSE, token |-> NoToken]
        ELSE IF ~guard_passed
        THEN [rm |-> rm, required |-> TRUE, token |-> NoToken]
        ELSE [rm |-> [rm EXCEPT !.pending_explain_tokens =
                         DictPut(@, token,
                                 [user_id |-> user_id,
                                  fingerprint |-> _trade_fingerprint(trade_params),
                                  created_at |-> t,
                                  expires_at |-> t + explain_token_ttl_seconds,
                                  used |-> FALSE,
                                  used_at |-> Nothing])],
              required |-> TRUE, token |-> token]

\* variant: an accepted token is not marked used
consume_without_marking_used(rm, user_id, trade_params, token, t) ==
    LET is_paper_trade == trade_params.is_paper_trade
        required == rm.require_explain_token /\ ~is_paper_trade
        token_data == rm.pending_explain_tokens[token]
    IN  IF ~required
        THEN [rm |-> rm, ok |-> TRUE, reason |-> "Explain token not required"]
        ELSE IF token = NoToken
        THEN [rm |-> rm, ok |-> FALSE, reason |-> "Missing explain execution token"]
        ELSE IF token \notin DOMAIN rm.pending_explain_tokens
        THEN [rm |-> rm, ok |-> FALSE, reason |-> "Explain execution token not found"]
        ELSE IF token_data.used
        THEN [rm |-> rm, ok |-> FALSE, reason |-> "Explain execution token already used"]
        ELSE IF t > token_data.expires_at
        THEN [rm |-> [rm EXCEPT !.pending_explain_tokens = DictPop(@, token)],
              ok |-> FALSE, reason |-> "Explain execution token expired"]
        ELSE IF token_data.user_id # user_id
        THEN [rm |-> rm, ok |-> FALSE, reason |-> "Explain execution token user mismatch"]
        ELSE IF token_data.fingerprint # _trade_fingerprint(trade_params)
        THEN [rm |-> rm, ok |-> FALSE,
              reason |-> "Trade parameters changed after explain-before-execute"]
        ELSE [rm |-> [rm EXCEPT !.pending_explain_tokens =
                         DictPut(@, token,
                                 [token_data EXCEPT !.used_at = Some(t)])],
              ok |-> TRUE, reason |-> "Explain execution token accepted"]

\* variant: expires_at is not looked at
consume_without_expiry_check(rm, user_id, trade_params, token, t) ==
    LET is_paper_trade == trade_params.is_paper_trade
        required == rm.require_explain_token /\ ~is_paper_trade
        token_data == rm.pending_explain_tokens[token]
    IN  IF ~required
        THEN [rm |-> rm, ok |-> TRUE, reason |-> "Explain token not required"]
        ELSE IF token = NoToken
        THEN [rm |-> rm, ok |-> FALSE, reason |-> "Missing explain execution token"]
        ELSE IF token \notin DOMAIN rm.pending_explain_tokens
        THEN [rm |-> rm, ok |-> FALSE, reason |-> "Explain execution token not found"]
        ELSE IF token_data.used
        THEN [rm |-> rm, ok |-> FALSE, reason |-> "Explain execution token already used"]
        ELSE IF token_data.user_id # user_id
        THEN [rm |-> rm, ok |-> FALSE, reason |-> "Explain execution token user mismatch"]
        ELSE IF token_data.fingerprint # _trade_fingerprint(trade_params)
        THEN [rm |-> rm, ok |-> FALSE,
              reason |-> "Trade parameters changed after explain-before-execute"]
        ELSE [rm |-> [rm EXCEPT !.pending_explain_tokens =
                         DictPut(@, token,
                                 [token_data EXCEPT !.used = TRUE, !.used_at = Some(t)])],
              ok |-> TRUE, reason |-> "Explain execution token accepted"]

\* the consume that discards a token presented by a user it was not issued to
consume_discarding_mismatched(rm, user_id, trade_params, token, t) ==
    LET is_paper_trade == trade_params.is_paper_trade
        required == rm.require_explain_token /\ ~is_paper_trade
        token_data == rm.pending_explain_tokens[token]
    IN  IF ~required
        THEN [rm |-> rm, ok |-> TRUE, reason |-> "Explain token not required"]
        ELSE IF token = NoToken
        THEN [rm |-> rm, ok |-> FALSE, reason |-> "Missing explain execution token"]
        ELSE IF token \notin DOMAIN rm.pending_explain_tokens
        THEN [rm |-> rm, ok |-> FALSE, reason |-> "Explain execution token not found"]
        ELSE IF token_data.used
        THEN [rm |-> rm, ok |-> FALSE, reason |-> "Explain execution token already used"]
        ELSE IF t > token_data.expires_at
        THEN [rm |-> [rm EXCEPT !.pending_explain_tokens = DictPop(@, token)],
              ok |-> FALSE, reason |-> "Explain execution token expired"]
        ELSE IF token_data.user_id # user_id
        THEN [rm |-> [rm EXCEPT !.pending_explain_tokens = DictPop(@, token)],
              ok |-> FALSE, reason |-> "Explain execution token user mismatch"]
        ELSE IF token_data.fingerprint # _trade_fingerprint(trade_params)
        THEN [rm |-> rm, ok |-> FALSE,
              reason |-> "Trade parameters changed after explain-before-execute"]
        ELSE [rm |-> [rm EXCEPT !.pending_explain_tokens =
                         DictPut(@, token,
                                 [token_data EXCEPT !.used = TRUE, !.used_at = Some(t)])],
              ok |-> TRUE, reason |-> "Explain execution token accepted"]

consume_explain_execution_token(rm, user_id, trade_params, token, t) ==
    LET is_paper_trade == trade_params.is_paper_trade
        required == rm.require_explain_token /\ ~is_paper_trade
        token_data == rm.pending_explain_tokens[token]
    IN  IF ~required
        THEN [rm |-> rm, ok |-> TRUE, reason |-> "Explain token not required"]
        ELSE IF token = NoToken
        THEN [rm |-> rm, ok |-> FALSE, reason |-> "Missing explain execution token"]
        ELSE IF token \notin DOMAIN rm.pending_explain_tokens
        THEN [rm |-> rm, ok |-> FALSE, reason |-> "Explain execution token not found"]
        ELSE IF token_data.used
        THEN [rm |-> rm, ok |-> FALSE, reason |-> "Explain execution token already used"]
        ELSE IF t > token_data.expires_at
        THEN [rm |-> [rm EXCEPT !.pending_explain_tokens = DictPop(@, token)],
              ok |-> FALSE, reason |-> "Explain execution token expired"]
        ELSE IF token_data.user_id # user_id
        THEN [rm |-> rm, ok |-> FALSE, reason |-> "Explain execution token user mismatch"]
        ELSE IF token_data.fingerprint # _trade_fingerprint(trade_params)
        THEN [rm |-> rm, ok |-> FALSE,
              reason |-> "Trade parameters changed after explain-before-execute"]
        ELSE [rm |-> [rm EXCEPT !.pending_explain_tokens =
                         DictPut(@, token,
                                 [token_data EXCEPT !.used = TRUE, !.used_at = Some(t)])],
              ok |-> TRUE, reason |-> "Explain execution token accepted"]

\* ------------------------------------------------------ Probation Evaluator
\* A paper summary is [error |-> TRUE] (no account) or the figures that
\* _extract_paper_metrics parses out of it: trade count, win rate and max
\* drawdown in tenths of a percent, account age in days.
\* metrics["max_drawdown_percent"] <= policy.max_drawdown_percent * 0.7, both
\* in tenths of a percent.  The product is a binary floating-point number: for
\* the limits listed (those up to 39.9%) it falls just under seven tenths of
\* the limit (12.0 * 0.7 is 8.399999999999999), so a drawdown of exactly seven
\* tenths of such a limit does not compare as within it.
SevenTenthsRoundsDown ==
    {30, 60, 70, 110, 120, 140, 170, 190, 220, 230, 240, 280, 290, 330, 340, 380, 390}

WithinSevenTenths(drawdown, limit) ==
    IF limit \in SevenTenthsRoundsDown
    THEN 10 * drawdown < 7 * limit
    ELSE 10 * drawdown <= 7 * limit

\* the evaluation with a pass that, once earned, is kept
evaluate_probation_carrying_pass(rm, user_id, paper_summary, t) ==
    LET policy == rm.probation_policy[user_id]
        state == rm.autonomy_state[user_id]
    IN  IF paper_summary.error
        THEN [rm |-> WithUser(rm, "autonomy_state", user_id,
                              [state EXCEPT !.probation_passed = FALSE,
                                            !.last_probation_check = Some(t)]),
              passed |-> FALSE,
              reason |-> "Paper trading account not available",
              failed_items |-> {}]
        ELSE
        LET metrics == paper_summary
            checks ==
                [paper_trades |-> metrics.total_trades >= policy.min_paper_trades,
                 win_rate |-> metrics.win_rate_percent >= policy.min_win_rate_percent,
                 drawdown |-> metrics.max_drawdown_percent <= policy.max_drawdown_percent,
                 age_days |-> metrics.age_days >= policy.min_active_days]
            passed == state.probation_passed \/ \A name \in DOMAIN checks : checks[name]
            level1 == IF passed /\ state.level \in {"manual", "assisted"}
                      THEN "guarded_auto" ELSE state.level
            level2 == IF /\ passed
                         /\ metrics.total_trades >= policy.min_paper_trades * 2
                         /\ metrics.win_rate_percent >= policy.min_win_rate_percent + 100
                         /\ WithinSevenTenths(metrics.max_drawdown_percent,
                                              policy.max_drawdown_percent)
                      THEN "full_auto" ELSE level1
            failed_items == {name \in DOMAIN checks : ~checks[name]}
        IN  [rm |-> WithUser(rm, "autonomy_state", user_id,
                             [state EXCEPT !.probation_passed = passed,
                                           !.last_probation_check = Some(t),
                                           !.level = level2]),
             passed |-> passed,
             reason |-> IF failed_items = {} THEN "Probation requirements satisfied"
                        ELSE "Probation incomplete",
             failed_items |-> failed_items]

evaluate_probation(rm, user_id, paper_summary, t) ==
    LET policy == rm.probation_policy[user_id]
        state == rm.autonomy_state[user_id]
    IN  IF paper_summary.error
        THEN [rm |-> WithUser(rm, "autonomy_state", user_id,
                              [state EXCEPT !.probation_passed = FALSE,
                                            !.last_probation_check = Some(t)]),
              passed |-> FALSE,
              reason |-> "Paper trading account not available",
              failed_items |-> {}]
        ELSE
        LET metrics == paper_summary
            checks ==
                [paper_trades |-> metrics.total_trades >= policy.min_paper_trades,
                 win_rate |-> metrics.win_rate_percent >= policy.min_win_rate_percent,
                 drawdown |-> metrics.max_drawdown_percent <= policy.max_drawdown_percent,
                 age_days |-> metrics.age_days >= policy.min_active_days]
            passed == \A name \in DOMAIN checks : checks[name]
            level1 == IF passed /\ state.level \in {"manual", "assisted"}
                      THEN "guarded_auto" ELSE state.level
            level2 == IF /\ passed
                         /\ metrics.total_trades >= policy.min_paper_trades * 2
                         /\ metrics.win_rate_percent >= policy.min_win_rate_percent + 100
                         /\ WithinSevenTenths(metrics.max_drawdown_percent,
                                              policy.max_drawdown_percent)
                      THEN "full_auto" ELSE level1
            failed_items == {name \in DOMAIN checks : ~checks[name]}
        IN  [rm |-> WithUser(rm, "autonomy_state", user_id,
                             [state EXCEPT !.probation_passed = passed,
                                           !.last_probation_check = Some(t),
                                           !.level = level2]),
             passed |-> passed,
             reason |-> IF failed_items = {} THEN "Probation requirements satisfied"
                        ELSE "Probation incomplete",
             failed_items |-> failed_items]

\* ------------------------------------------------- Anomaly & Drift Monitor
SeqMax(q) == CHOOSE x \in {q[i] : i \in 1..Len(q)} :
                \A y \in {q[i] : i \in 1..Len(q)} : x >= y

SeqMin(q) == CHOOSE x \in {q[i] : i \in 1..Len(q)} :
                \A y \in {q[i] : i \in 1..Len(q)} : x <= y

\* q[-n:]
LastN(q, n) == IF Len(q) > n THEN SubSeq(q, Len(q) - n + 1, Len(q)) ELSE q

\* score_range >= 0.28, where score_range is max(scores) - min(scores) in
\* binary floating point and the scores are decimals (of two places here).
\* A range of exactly 0.28 comes out just under 0.28 when the lower score, in
\* 1/100, is one of these: 0.6 - 0.32 is 0.27999999999999997.
DriftRoundsUnder ==
    {1, 2, 7, 8, 13, 14, 19, 20, 29, 30, 31, 32, 33, 34, 41, 42, 43, 44, 45, 46,
     54, 55, 56, 66, 67, 68}

RangeAtLeastDrift(score_range, lowest) ==
    \/ score_range > DriftRange
    \/ score_range = DriftRange /\ lowest \notin DriftRoundsUnder

\* the monitor with the range of the window measured from zero
assess_with_range_from_zero(rm, user_id, deep_study, t) ==
    LET state == rm.autonomy_state[user_id]
    IN  IF deep_study = Nothing
        THEN [rm |-> rm, triggered |-> FALSE, reason |-> "deep_study_missing"]
        ELSE
        LET study == Get(deep_study)
            volatility == study.volatility
            consensus_score == study.consensus_score
            coverage_ratio == study.coverage_ratio
            appended == Append(state.recent_consensus_scores, consensus_score)
            scores == IF Len(appended) > WindowSize
                      THEN LastN(appended, WindowSize) ELSE appended
            score_range == SeqMax(scores)
            anomaly == volatility = "high" /\ coverage_ratio < AnomalyCoverage
            drift == /\ Len(scores) >= DriftMinObservations
                     /\ RangeAtLeastDrift(score_range, SeqMin(scores))
            pause_reason ==
                IF anomaly /\ drift
                THEN "Anomaly pause: high volatility + unstable model consensus"
                ELSE IF anomaly
                THEN "Anomaly pause: high volatility with low source coverage"
                ELSE "Anomaly pause: model drift detected in consensus signals"
            seen == [state EXCEPT !.recent_consensus_scores = scores]
        IN  IF anomaly \/ drift
            THEN [rm |-> WithUser(rm, "autonomy_state", user_id,
                                  [seen EXCEPT
                                     !.paused = TRUE,
                                     !.pause_reason = pause_reason,
                                     !.pause_until = Some(t + AnomalyPauseSeconds),
                                     !.level = IF @ = "full_auto"
                                               THEN "guarded_auto" ELSE @]),
                  triggered |-> TRUE, reason |-> pause_reason]
            ELSE IF seen.pause_until # Nothing /\ t >= Get(seen.pause_until)
            THEN [rm |-> WithUser(rm, "autonomy_state", user_id,
                                  [seen EXCEPT !.paused = FALSE,
                                               !.pause_reason = None,
                                               !.pause_until = Nothing]),
                  triggered |-> FALSE, reason |-> None]
            ELSE [rm |-> WithUser(rm, "autonomy_state", user_id, seen),
                  triggered |-> FALSE, reason |-> None]

\* the monitor with a window that is never cut back
assess_keeping_every_score(rm, user_id, deep_study, t) ==
    LET state == rm.autonomy_state[user_id]
    IN  IF deep_study = Nothing
        THEN [rm |-> rm, triggered |-> FALSE, reason |-> "deep_study_missing"]
        ELSE
        LET study == Get(deep_study)
            volatility == study.volatility
            consensus_score == study.consensus_score
            coverage_ratio == study.coverage_ratio
            appended == Append(state.recent_consensus_scores, consensus_score)
            scores == appended
            score_range == SeqMax(scores) - SeqMin(scores)
            anomaly == volatility = "high" /\ coverage_ratio < AnomalyCoverage
            drift == /\ Len(scores) >= DriftMinObservations
                     /\ RangeAtLeastDrift(score_range, SeqMin(scores))
            pause_reason ==
                IF anomaly /\ drift
                THEN "Anomaly pause: high volatility + unstable model consensus"
                ELSE IF anomaly
                THEN "Anomaly pause: high volatility with low source coverage"
                ELSE "Anomaly pause: model drift detected in consensus signals"
            seen == [state EXCEPT !.recent_consensus_scores = scores]
        IN  IF anomaly \/ drift
            THEN [rm |-> WithUser(rm, "autonomy_state", user_id,
                                  [seen EXCEPT
                                     !.paused = TRUE,
                                     !.pause_reason = pause_reason,
                                     !.pause_until = Some(t + AnomalyPauseSeconds),
                                     !.level = IF @ = "full_auto"
                                               THEN "guarded_auto" ELSE @]),
                  triggered |-> TRUE, reason |-> pause_reason]
            ELSE IF seen.pause_until # Nothing /\ t >= Get(seen.pause_until)
            THEN [rm |-> WithUser(rm, "autonomy_state", user_id,
                                  [seen EXCEPT !.paused = FALSE,
                                               !.pause_reason = None,
                                               !.pause_until = Nothing]),
                  triggered |-> FALSE, reason |-> None]
            ELSE [rm |-> WithUser(rm, "autonomy_state", user_id, seen),
                  triggered |-> FALSE, reason |-> None]

\* deep_study is Nothing (not a dict) or Some([volatility, consensus_score,
\* coverage_ratio]), scores and ratios in 1/100.
assess_anomaly_and_drift(rm, user_id, deep_study, t) ==
    LET state == rm.autonomy_state[user_id]
    IN  IF deep_study = Nothing
        THEN [rm |-> rm, triggered |-> FALSE, reason |-> "deep_study_missing"]
        ELSE
        LET study == Get(deep_study)
            volatility == study.volatility
            consensus_score == study.consensus_score
            coverage_ratio == study.coverage_ratio
            appended == Append(state.recent_consensus_scores, consensus_score)
            scores == IF Len(appended) > WindowSize
                      THEN LastN(appended, WindowSize) ELSE appended
            score_range == SeqMax(scores) - SeqMin(scores)
            anomaly == volatility = "high" /\ coverage_ratio < AnomalyCoverage
            drift == /\ Len(scores) >= DriftMinObservations
                     /\ RangeAtLeastDrift(score_range, SeqMin(scores))
            pause_reason ==
                IF anomaly /\ drift
                THEN "Anomaly pause: high volatility + unstable model consensus"
                ELSE IF anomaly
                THEN "Anomaly pause: high volatility with low source coverage"
                ELSE "Anomaly pause: model drift detected in consensus signals"
            seen == [state EXCEPT !.recent_consensus_scores = scores]
        IN  IF anomaly \/ drift
            THEN [rm |-> WithUser(rm, "autonomy_state", user_id,
                                  [seen EXCEPT
                                     !.paused = TRUE,
                                     !.pause_reason = pause_reason,
                                     !.pause_until = Some(t + AnomalyPauseSeconds),
                                     !.level = IF @ = "full_auto"
                                               THEN "guarded_auto" ELSE @]),
                  triggered |-> TRUE, reason |-> pause_reason]
            ELSE IF seen.pause_until # Nothing /\ t >= Get(seen.pause_until)
            THEN [rm |-> WithUser(rm, "autonomy_state", user_id,
                                  [seen EXCEPT !.paused = FALSE,
                                               !.pause_reason = None,
                                               !.pause_until = Nothing]),
                  triggered |-> FALSE, reason |-> None]
            ELSE [rm |-> WithUser(rm, "autonomy_state", user_id, seen),
                  triggered |-> FALSE, reason |-> None]

\* ---------------------------------------------------- Risk Budget Tracker
DailyPnl(rm, user_id) ==
    IF rm.daily_stats[user_id] = Nothing THEN Zero
    ELSE Get(rm.daily_stats[user_id]).total_profit_loss

DailyMaxDrawdown(rm, user_id) ==
    IF rm.daily_stats[user_id] = Nothing THEN 0
    ELSE Get(rm.daily_stats[user_id]).max_drawdown

WeeklyPnl(rm, user_id, t) ==
    DictGet(rm.weekly_profit_loss[user_id], _get_week_key(t), Zero)

\* the tracker with a breach that pauses but leaves the level as it was
apply_budget_without_demotion(rm, user_id, t) ==
    LET budget == rm.risk_budgets[user_id]
        state == rm.autonomy_state[user_id]
        daily_pnl == DailyPnl(rm, user_id)
        max_drawdown == DailyMaxDrawdown(rm, user_id)
        weekly_pnl == WeeklyPnl(rm, user_id, t)
        breach(reason) == [state EXCEPT !.paused = TRUE,
                                        !.pause_reason = reason]
        cleared == IF state.paused /\ state.pause_reason \in BudgetPauseReasons
                   THEN [state EXCEPT !.paused = FALSE, !.pause_reason = None]
                   ELSE state
        near_daily ==
            NumLE(NumScale(10, daily_pnl), NumNeg(NumScale(7, budget.daily_loss_limit_percent)))
        near_weekly ==
            NumLE(NumScale(10, weekly_pnl), NumNeg(NumScale(7, budget.weekly_loss_limit_percent)))
        near_drawdown == 10 * max_drawdown >= 7 * budget.max_drawdown_percent
        downgraded ==
            IF near_daily \/ near_weekly \/ near_drawdown
            THEN [cleared EXCEPT !.level =
                     IF @ = "full_auto" THEN "guarded_auto"
                     ELSE IF @ = "guarded_auto" THEN "assisted" ELSE @]
            ELSE cleared
        after ==
            IF NumLE(daily_pnl, NumNeg(budget.daily_loss_limit_percent))
            THEN breach("Budget pause: daily loss budget breached")
            ELSE IF NumLE(weekly_pnl, NumNeg(budget.weekly_loss_limit_percent))
            THEN breach("Budget pause: weekly loss budget breached")
            ELSE IF max_drawdown >= budget.max_drawdown_percent
            THEN breach("Budget pause: drawdown budget breached")
            ELSE downgraded
    IN  WithUser(rm, "autonomy_state", user_id, after)

\* the budget evaluation leaving a budget pause for a manual reset
apply_budget_keeping_pause(rm, user_id, t) ==
    LET budget == rm.risk_budgets[user_id]
        state == rm.autonomy_state[user_id]
        daily_pnl == DailyPnl(rm, user_id)
        max_drawdown == DailyMaxDrawdown(rm, user_id)
        weekly_pnl == WeeklyPnl(rm, user_id, t)
        breach(reason) == [state EXCEPT !.paused = TRUE,
                                        !.pause_reason = reason,
                                        !.level = "assisted"]
        cleared == state
        near_daily ==
            NumLE(NumScale(10, daily_pnl), NumNeg(NumScale(7, budget.daily_loss_limit_percent)))
        near_weekly ==
            NumLE(NumScale(10, weekly_pnl), NumNeg(NumScale(7, budget.weekly_loss_limit_percent)))
        near_drawdown == 10 * max_drawdown >= 7 * budget.max_drawdown_percent
        downgraded ==
            IF near_daily \/ near_weekly \/ near_drawdown
            THEN [cleared EXCEPT !.level =
                     IF @ = "full_auto" THEN "guarded_auto"
                     ELSE IF @ = "guarded_auto" THEN "assisted" ELSE @]
            ELSE cleared
        after ==
            IF NumLE(daily_pnl, NumNeg(budget.daily_loss_limit_percent))
            THEN breach("Budget pause: daily loss budget breached")
            ELSE IF NumLE(weekly_pnl, NumNeg(budget.weekly_loss_limit_percent))
            THEN breach("Budget pause: weekly loss budget breached")
            ELSE IF max_drawdown >= budget.max_drawdown_percent
            THEN breach("Budget pause: drawdown budget breached")
            ELSE downgraded
    IN  WithUser(rm, "autonomy_state", user_id, after)

\* the budget evaluation taking full_auto straight to assisted near a limit
apply_budget_dropping_to_assisted(rm, user_id, t) ==
    LET budget == rm.risk_budgets[user_id]
        state == rm.autonomy_state[user_id]
        daily_pnl == DailyPnl(rm, user_id)
        max_drawdown == DailyMaxDrawdown(rm, user_id)
        weekly_pnl == WeeklyPnl(rm, user_id, t)
        breach(reason) == [state EXCEPT !.paused = TRUE,
                                        !.pause_reason = reason,
                                        !.level = "assisted"]
        cleared == IF state.paused /\ state.pause_reason \in BudgetPauseReasons
                   THEN [state EXCEPT !.paused = FALSE, !.pause_reason = None]
                   ELSE state
        near_daily ==
            NumLE(NumScale(10, daily_pnl), NumNeg(NumScale(7, budget.daily_loss_limit_percent)))
        near_weekly ==
            NumLE(NumScale(10, weekly_pnl), NumNeg(NumScale(7, budget.weekly_loss_limit_percent)))
        near_drawdown == 10 * max_drawdown >= 7 * budget.max_drawdown_percent
        downgraded ==
            IF near_daily \/ near_weekly \/ near_drawdown
            THEN [cleared EXCEPT !.level =
                     IF @ = "full_auto" THEN "assisted"
                     ELSE IF @ = "guarded_auto" THEN "assisted" ELSE @]
            ELSE cleared
        after ==
            IF NumLE(daily_pnl, NumNeg(budget.daily_loss_limit_percent))
            THEN breach("Budget pause: daily loss budget breached")
            ELSE IF NumLE(weekly_pnl, NumNeg(budget.weekly_loss_limit_percent))
            THEN breach("Budget pause: weekly loss budget breached")
            ELSE IF max_drawdown >= budget.max_drawdown_percent
            THEN breach("Budget pause: drawdown budget breached")
            ELSE downgraded
    IN  WithUser(rm, "autonomy_state", user_id, after)

_apply_budget_and_autonomy(rm, user_id, t) ==
    LET budget == rm.risk_budgets[user_id]
        state == rm.autonomy_state[user_id]
        daily_pnl == DailyPnl(rm, user_id)
        max_drawdown == DailyMaxDrawdown(rm, user_id)
        weekly_pnl == WeeklyPnl(rm, user_id, t)
        breach(reason) == [state EXCEPT !.paused = TRUE,
                                        !.pause_reason = reason,
                                        !.level = "assisted"]
        cleared == IF state.paused /\ state.pause_reason \in BudgetPauseReasons
                   THEN [state EXCEPT !.paused = FALSE, !.pause_reason = None]
                   ELSE state
        near_daily ==
            NumLE(NumScale(10, daily_pnl), NumNeg(NumScale(7, budget.daily_loss_limit_percent)))
        near_weekly ==
            NumLE(NumScale(10, weekly_pnl), NumNeg(NumScale(7, budget.weekly_loss_limit_percent)))
        near_drawdown == 10 * max_drawdown >= 7 * budget.max_drawdown_percent
        downgraded ==
            IF near_daily \/ near_weekly \/ near_drawdown
            THEN [cleared EXCEPT !.level =
                     IF @ = "full_auto" THEN "guarded_auto"
                     ELSE IF @ = "guarded_auto" THEN "assisted" ELSE @]
            ELSE cleared
        after ==
            IF NumLE(daily_pnl, NumNeg(budget.daily_loss_limit_percent))
            THEN breach("Budget pause: daily loss budget breached")
            ELSE IF NumLE(weekly_pnl, NumNeg(budget.weekly_loss_limit_percent))
            THEN breach("Budget pause: weekly loss budget breached")
            ELSE IF max_drawdown >= budget.max_drawdown_percent
            THEN breach("Budget pause: drawdown budget breached")
            ELSE downgraded
    IN  WithUser(rm, "autonomy_state", user_id, after)

\* ---------------------------------------------------- Guardrail Orchestrator
get_autonomy_guardrails(rm, user_id, t) ==
    _apply_budget_and_autonomy(rm, user_id, t)

\* (value or "").strip().lower(), on the texts the requests carry: a missing
\* value gives the empty text, padding and capitals are removed, a text that is
\* already trimmed lower case is returned as it is
StripLower(text) ==
    CASE text = None -> ""
      [] text = " Premium " -> "premium"
      [] text = "ENTERPRISE" -> "enterprise"
      [] text = "Trialing" -> "trialing"
      [] text = " Full_Autonomy " -> "full_autonomy"
      [] text = " Full_Auto " -> "full_auto"
      [] text = "Full" -> "full"
      [] OTHER -> text

\* probation, risk_budget: Nothing or Some(the replacement record); level:
\* None or the string of the request.
configure_autonomy_guardrails(rm, user_id, probation, risk_budget, level, t) ==
    LET rm1 == IF probation = Nothing THEN rm
               ELSE WithUser(rm, "probation_policy", user_id, Get(probation))
        rm2 == IF risk_budget = Nothing THEN rm1
               ELSE WithUser(rm1, "risk_budgets", user_id, Get(risk_budget))
        normalized == StripLower(level)
        rm3 == IF normalized \in {"manual", "assisted", "guarded_auto", "full_auto"}
               THEN WithUser(rm2, "autonomy_state", user_id,
                             [rm2.autonomy_state[user_id] EXCEPT !.level = normalized])
               ELSE rm2
    IN  Bind(rm3, LAMBDA configured : get_autonomy_guardrails(configured, user_id, t))

StartsWithDev(user_id) == user_id \in {"dev_1"}

\* risk_percent > budget.max_risk_per_trade_percent, in tenths of a percent
RiskExceedsBudget(trade_params, budget) ==
    IF trade_params.risk_percent # Nothing /\ Get(trade_params.risk_percent) >= 0
    THEN Get(trade_params.risk_percent) > budget.max_risk_per_trade_percent
    ELSE LET entry_price == trade_params.entry_price
             stop_loss == trade_params.stop_loss
         IN  IF NumSign(entry_price) > 0 /\ NumSign(stop_loss) > 0
             THEN NumLT(NumScale(budget.max_risk_per_trade_percent, entry_price),
                        NumScale(1000, NumAbs(NumSub(entry_price, stop_loss))))
             ELSE 0 > budget.max_risk_per_trade_percent

\* the guard without its paused gate
can_execute_without_paused_check(rm, user_id, trade_params, paper_summary, deep_study, t) ==
    Bind(_apply_budget_and_autonomy(rm, user_id, t), LAMBDA rm1 :
    Bind(LET state1 == rm1.autonomy_state[user_id]
         IN  IF /\ state1.paused
                /\ state1.pause_until # Nothing
                /\ state1.pause_reason \in AnomalyPauseReasons
                /\ t >= Get(state1.pause_until)
             THEN WithUser(rm1, "autonomy_state", user_id,
                           [state1 EXCEPT !.paused = FALSE,
                                          !.pause_reason = None,
                                          !.pause_until = Nothing])
             ELSE rm1, LAMBDA rm2 :
    Bind(IF trade_params.is_paper_trade
            \/ (rm.allow_dev_probation_bypass /\ StartsWithDev(user_id))
         THEN [rm |-> rm2, passed |-> TRUE, reason |-> "Paper trade path",
               failed_items |-> {}]
         ELSE evaluate_probation(rm2, user_id, paper_summary, t), LAMBDA probation :
    Bind(assess_anomaly_and_drift(probation.rm, user_id, deep_study, t), LAMBDA anomaly :
    LET state2 == rm2.autonomy_state[user_id]
        budget == rm2.risk_budgets[user_id]
        is_paper_trade == trade_params.is_paper_trade
        rm3 == probation.rm
    IN  IF ~is_paper_trade /\ state2.level = "manual"
        THEN [rm |-> rm2, ok |-> FALSE, gate |-> "manual",
              reason |-> "Autonomy level is manual. Enable assisted/guarded/full mode first."]
        ELSE IF ~probation.passed
        THEN [rm |-> rm3, ok |-> FALSE, gate |-> "probation", reason |-> probation.reason]
        ELSE IF RiskExceedsBudget(trade_params, budget)
        THEN [rm |-> rm3, ok |-> FALSE, gate |-> "risk",
              reason |-> "Trade risk exceeds budget"]
        ELSE IF anomaly.triggered
        THEN [rm |-> anomaly.rm, ok |-> FALSE, gate |-> "anomaly",
              reason |-> anomaly.reason]
        ELSE [rm |-> anomaly.rm, ok |-> TRUE, gate |-> "admit",
              reason |-> "Autonomous guardrails passed"]))))

\* the guard lifting every pause whose pause_until has passed
can_execute_clearing_any_pause(rm, user_id, trade_params, paper_summary, deep_study, t) ==
    Bind(_apply_budget_and_autonomy(rm, user_id, t), LAMBDA rm1 :
    Bind(LET state1 == rm1.autonomy_state[user_id]
         IN  IF /\ state1.paused
                /\ state1.pause_until # Nothing
                /\ t >= Get(state1.pause_until)
             THEN WithUser(rm1, "autonomy_state", user_id,
                           [state1 EXCEPT !.paused = FALSE,
                                          !.pause_reason = None,
                                          !.pause_until = Nothing])
             ELSE rm1, LAMBDA rm2 :
    Bind(IF trade_params.is_paper_trade
            \/ (rm.allow_dev_probation_bypass /\ StartsWithDev(user_id))
         THEN [rm |-> rm2, passed |-> TRUE, reason |-> "Paper trade path",
               failed_items |-> {}]
         ELSE evaluate_probation(rm2, user_id, paper_summary, t), LAMBDA probation :
    Bind(assess_anomaly_and_drift(probation.rm, user_id, deep_study, t), LAMBDA anomaly :
    LET state2 == rm2.autonomy_state[user_id]
        budget == rm2.risk_budgets[user_id]
        is_paper_trade == trade_params.is_paper_trade
        rm3 == probation.rm
    IN  IF state2.paused
        THEN [rm |-> rm2, ok |-> FALSE, gate |-> "paused",
              reason |-> IF state2.pause_reason # None THEN state2.pause_reason
                         ELSE "Autonomy paused by guardrails"]
        ELSE IF ~is_paper_trade /\ state2.level = "manual"
        THEN [rm |-> rm2, ok |-> FALSE, gate |-> "manual",
              reason |-> "Autonomy level is manual. Enable assisted/guarded/full mode first."]
        ELSE IF ~probation.passed
        THEN [rm |-> rm3, ok |-> FALSE, gate |-> "probation", reason |-> probation.reason]
        ELSE IF RiskExceedsBudget(trade_params, budget)
        THEN [rm |-> rm3, ok |-> FALSE, gate |-> "risk",
              reason |-> "Trade risk exceeds budget"]
        ELSE IF anomaly.triggered
        THEN [rm |-> anomaly.rm, ok |-> FALSE, gate |-> "anomaly",
              reason |-> anomaly.reason]
        ELSE [rm |-> anomaly.rm, ok |-> TRUE, gate |-> "admit",
              reason |-> "Autonomous guardrails passed"]))))

\* the guard letting a full_auto user past a failed probation
can_execute_trusting_full_auto(rm, user_id, trade_params, paper_summary, deep_study, t) ==
    Bind(_apply_budget_and_autonomy(rm, user_id, t), LAMBDA rm1 :
    Bind(LET state1 == rm1.autonomy_state[user_id]
         IN  IF /\ state1.paused
                /\ state1.pause_until # Nothing
                /\ state1.pause_reason \in AnomalyPauseReasons
                /\ t >= Get(state1.pause_until)
             THEN WithUser(rm1, "autonomy_state", user_id,
                           [state1 EXCEPT !.paused = FALSE,
                                          !.pause_reason = None,
                                          !.pause_until = Nothing])
             ELSE rm1, LAMBDA rm2 :
    Bind(IF trade_params.is_paper_trade
            \/ (rm.allow_dev_probation_bypass /\ StartsWithDev(user_id))
         THEN [rm |-> rm2, passed |-> TRUE, reason |-> "Paper trade path",
               failed_items |-> {}]
         ELSE evaluate_probation(rm2, user_id, paper_summary, t), LAMBDA probation :
    Bind(assess_anomaly_and_drift(probation.rm, user_id, deep_study, t), LAMBDA anomaly :
    LET state2 == rm2.autonomy_state[user_id]
        budget == rm2.risk_budgets[user_id]
        is_paper_trade == trade_params.is_paper_trade
        rm3 == probation.rm
    IN  IF state2.paused
        THEN [rm |-> rm2, ok |-> FALSE, gate |-> "paused",
              reason |-> IF state2.pause_reason # None THEN state2.pause_reason
                         ELSE "Autonomy paused by guardrails"]
        ELSE IF ~is_paper_trade /\ state2.level = "manual"
        THEN [rm |-> rm2, ok |-> FALSE, gate |-> "manual",
              reason |-> "Autonomy level is manual. Enable assisted/guarded/full mode first."]
        ELSE IF ~probation.passed /\ state2.level # "full_auto"
        THEN [rm |-> rm3, ok |-> FALSE, gate |-> "probation", reason |-> probation.reason]
        ELSE IF RiskExceedsBudget(trade_params, budget)
        THEN [rm |-> rm3, ok |-> FALSE, gate |-> "risk",
              reason |-> "Trade risk exceeds budget"]
        ELSE IF anomaly.triggered
        THEN [rm |-> anomaly.rm, ok |-> FALSE, gate |-> "anomaly",
              reason |-> anomaly.reason]
        ELSE [rm |-> anomaly.rm, ok |-> TRUE, gate |-> "admit",
              reason |-> "Autonomous guardrails passed"]))))

\* the guard that keeps what the anomaly monitor wrote when the risk gate denies
can_execute_assessing_before_risk(rm, user_id, trade_params, paper_summary, deep_study, t) ==
    Bind(_apply_budget_and_autonomy(rm, user_id, t), LAMBDA rm1 :
    Bind(LET state1 == rm1.autonomy_state[user_id]
         IN  IF /\ state1.paused
                /\ state1.pause_until # Nothing
                /\ state1.pause_reason \in AnomalyPauseReasons
                /\ t >= Get(state1.pause_until)
             THEN WithUser(rm1, "autonomy_state", user_id,
                           [state1 EXCEPT !.paused = FALSE,
                                          !.pause_reason = None,
                                          !.pause_until = Nothing])
             ELSE rm1, LAMBDA rm2 :
    Bind(IF trade_params.is_paper_trade
            \/ (rm.allow_dev_probation_bypass /\ StartsWithDev(user_id))
         THEN [rm |-> rm2, passed |-> TRUE, reason |-> "Paper trade path",
               failed_items |-> {}]
         ELSE evaluate_probation(rm2, user_id, paper_summary, t), LAMBDA probation :
    Bind(assess_anomaly_and_drift(probation.rm, user_id, deep_study, t), LAMBDA anomaly :
    LET state2 == rm2.autonomy_state[user_id]
        budget == rm2.risk_budgets[user_id]
        is_paper_trade == trade_params.is_paper_trade
        rm3 == probation.rm
    IN  IF state2.paused
        THEN [rm |-> rm2, ok |-> FALSE, gate |-> "paused",
              reason |-> IF state2.pause_reason # None THEN state2.pause_reason
                         ELSE "Autonomy paused by guardrails"]
        ELSE IF ~is_paper_trade /\ state2.level = "manual"
        THEN [rm |-> rm2, ok |-> FALSE, gate |-> "manual",
              reason |-> "Autonomy level is manual. Enable assisted/guarded/full mode first."]
        ELSE IF ~probation.passed
        THEN [rm |-> rm3, ok |-> FALSE, gate |-> "probation", reason |-> probation.reason]
        ELSE IF RiskExceedsBudget(trade_params, budget)
        THEN [rm |-> anomaly.rm, ok |-> FALSE, gate |-> "risk",
              reason |-> "Trade risk exceeds budget"]
        ELSE IF anomaly.triggered
        THEN [rm |-> anomaly.rm, ok |-> FALSE, gate |-> "anomaly",
              reason |-> anomaly.reason]
        ELSE [rm |-> anomaly.rm, ok |-> TRUE, gate |-> "admit",
              reason |-> "Autonomous guardrails passed"]))))

can_execute_autonomous_trade(rm, user_id, trade_params, paper_summary, deep_study, t) ==
    Bind(_apply_budget_and_autonomy(rm, user_id, t), LAMBDA rm1 :
    Bind(LET state1 == rm1.autonomy_state[user_id]
         IN  IF /\ state1.paused
                /\ state1.pause_until # Nothing
                /\ state1.pause_reason \in AnomalyPauseReasons
                /\ t >= Get(state1.pause_until)
             THEN WithUser(rm1, "autonomy_state", user_id,
                           [state1 EXCEPT !.paused = FALSE,
                                          !.pause_reason = None,
                                          !.pause_until = Nothing])
             ELSE rm1, LAMBDA rm2 :
    Bind(IF trade_params.is_paper_trade
            \/ (rm.allow_dev_probation_bypass /\ StartsWithDev(user_id))
         THEN [rm |-> rm2, passed |-> TRUE, reason |-> "Paper trade path",
               failed_items |-> {}]
         ELSE evaluate_probation(rm2, user_id, paper_summary, t), LAMBDA probation :
    Bind(assess_anomaly_and_drift(probation.rm, user_id, deep_study, t), LAMBDA anomaly :
    LET state2 == rm2.autonomy_state[user_id]
        budget == rm2.risk_budgets[user_id]
        is_paper_trade == trade_params.is_paper_trade
        rm3 == probation.rm
    IN  IF state2.paused
        THEN [rm |-> rm2, ok |-> FALSE, gate |-> "paused",
              reason |-> IF state2.pause_reason # None THEN state2.pause_reason
                         ELSE "Autonomy paused by guardrails"]
        ELSE IF ~is_paper_trade /\ state2.level = "manual"
        THEN [rm |-> rm2, ok |-> FALSE, gate |-> "manual",
              reason |-> "Autonomy level is manual. Enable assisted/guarded/full mode first."]
        ELSE IF ~probation.passed
        THEN [rm |-> rm3, ok |-> FALSE, gate |-> "probation", reason |-> probation.reason]
        ELSE IF RiskExceedsBudget(trade_params, budget)
        THEN [rm |-> rm3, ok |-> FALSE, gate |-> "risk",
              reason |-> "Trade risk exceeds budget"]
        ELSE IF anomaly.triggered
        THEN [rm |-> anomaly.rm, ok |-> FALSE, gate |-> "anomaly",
              reason |-> anomaly.reason]
        ELSE [rm |-> anomaly.rm, ok |-> TRUE, gate |-> "admit",
              reason |-> "Autonomous guardrails passed"]))))

\* ---------------------------------------------------------- limits, trades
initialize_user_limits(rm, user_id, limits, t) ==
    [rm EXCEPT !.user_limits[user_id] = Some(limits),
               !.active_trades[user_id] = <<>>,
               !.kill_switch_active[user_id] = FALSE,
               !.daily_stats[user_id] = Some(DailyTradingStats(t \div SecondsPerDay))]

\* pair.upper() has the shape XXX/YYY, three letters a leg
PairFormatOK(pair) == pair \in {"EUR/USD", "USD/JPY"}

\* stop_loss < entry_price < take_profit for BUY, the inverse otherwise
buy_only_price_order(action, entry_price, stop_loss, take_profit) ==
    action = "BUY" => NumLT(stop_loss, entry_price) /\ NumLT(entry_price, take_profit)

PriceOrderOK(action, entry_price, stop_loss, take_profit) ==
    IF action = "BUY"
    THEN NumLT(stop_loss, entry_price) /\ NumLT(entry_price, take_profit)
    ELSE NumLT(take_profit, entry_price) /\ NumLT(entry_price, stop_loss)

\* sl_distance and tp_distance are abs((entry_price - stop_loss) / entry_price)
\* * 100 and abs((take_profit - entry_price) / entry_price) * 100 in binary
\* floating point.  Off the limits they compare with 0.2, 5.0 and 1.2 as the
\* exact quotients do; exactly at a limit the rounding of the quotient
\* decides.  Of the prices the model draws, these are the ones whose quotient
\* lands on the far side of its limit: 0.19999999999999815 for 1.1000 /
\* 1.0978, 5.000000000000014 for 1.1000 / 1.0450, 1.1999999999999997 for
\* 1.1000 / 1.0950 / 1.1060.
StopRoundsUnder ==
    {<<Num(11000, 0), Num(10978, 0)>>, <<Num(11000, 0), Num(11022, 0)>>}

StopRoundsOver ==
    {<<Num(11000, 0), Num(10450, 0)>>}

RatioRoundsUnder ==
    {<<Num(11000, 0), Num(10950, 0), Num(11060, 0)>>,
     <<Num(1500000, 0), Num(1490000, 0), Num(1512000, 0)>>,
     <<Num(1500000, 0), Num(1510000, 0), Num(1488000, 0)>>}

\* sl_distance < 0.2
StopTooClose(entry_price, stop_loss) ==
    LET distance == NumAbs(NumSub(entry_price, stop_loss))
    IN  \/ NumLT(NumScale(500, distance), entry_price)
        \/ /\ NumEQ(NumScale(500, distance), entry_price)
           /\ <<entry_price, stop_loss>> \in StopRoundsUnder

\* sl_distance > 5.0
StopTooFar(entry_price, stop_loss) ==
    LET distance == NumAbs(NumSub(entry_price, stop_loss))
    IN  \/ NumLT(entry_price, NumScale(20, distance))
        \/ /\ NumEQ(entry_price, NumScale(20, distance))
           /\ <<entry_price, stop_loss>> \in StopRoundsOver

\* a minimum of 1.0 in place of 1.2
reward_risk_below_one(entry_price, stop_loss, take_profit) ==
    NumLT(NumAbs(NumSub(take_profit, entry_price)),
          NumAbs(NumSub(entry_price, stop_loss)))

\* rr_ratio < 1.2, rr_ratio being tp_distance / sl_distance
RewardRiskTooLow(entry_price, stop_loss, take_profit) ==
    LET sl_distance == NumAbs(NumSub(entry_price, stop_loss))
        tp_distance == NumAbs(NumSub(take_profit, entry_price))
    IN  \/ NumLT(NumScale(5, tp_distance), NumScale(6, sl_distance))
        \/ /\ NumEQ(NumScale(5, tp_distance), NumScale(6, sl_distance))
           /\ <<entry_price, stop_loss, take_profit>> \in RatioRoundsUnder

validate_trade(rm, user_id, trade_params) ==
    LET limits == Get(rm.user_limits[user_id])
        is_paper_trade == trade_params.is_paper_trade
        action == trade_params.action
        position_size == trade_params.position_size
        entry_price == trade_params.entry_price
        stop_loss == trade_params.stop_loss
        take_profit == trade_params.take_profit
        tp_distance == NumAbs(NumSub(take_profit, entry_price))
        open_positions == Len(rm.active_trades[user_id])
        deny(reason) == [ok |-> FALSE, reason |-> reason]
    IN  IF rm.user_limits[user_id] = Nothing
        THEN deny("User risk limits not configured")
        ELSE IF rm.kill_switch_active[user_id]
        THEN deny("KILL SWITCH ACTIVE - All trading disabled")
        ELSE IF /\ rm.require_broker_fail_safe /\ ~is_paper_trade
                /\ ~trade_params.broker_fail_safe_confirmed
        THEN deny("Broker fail-safe protection is mandatory for live trades.")
        ELSE IF action \notin {"BUY", "SELL"}
        THEN deny("Action must be BUY or SELL")
        ELSE IF ~PairFormatOK(trade_params.pair)
        THEN deny("Pair must be in XXX/YYY format")
        ELSE IF position_size <= 0
        THEN deny("Position size must be greater than zero")
        ELSE IF NumSign(entry_price) <= 0 \/ NumSign(stop_loss) <= 0 \/ NumSign(take_profit) <= 0
        THEN deny("Entry, Stop-Loss, and Take-Profit must be greater than zero")
        ELSE IF ~PriceOrderOK(action, entry_price, stop_loss, take_profit)
        THEN deny(IF action = "BUY"
                  THEN "For BUY trades, require stop_loss < entry_price < take_profit"
                  ELSE "For SELL trades, require take_profit < entry_price < stop_loss")
        ELSE IF StopTooClose(entry_price, stop_loss)
        THEN deny("Stop-Loss too close to entry (0.2% minimum)")
        ELSE IF StopTooFar(entry_price, stop_loss)
        THEN deny("Stop-Loss too far from entry (5.0% maximum)")
        ELSE IF NumSign(tp_distance) <= 0
        THEN deny("Take-Profit distance is invalid")
        ELSE IF RewardRiskTooLow(entry_price, stop_loss, take_profit)
        THEN deny("Risk-reward ratio too low (minimum 1.2)")
        ELSE IF position_size > limits.max_trade_size
        THEN deny("Position size exceeds max")
        ELSE IF open_positions >= limits.max_open_positions
        THEN deny("Already at max open positions")
        ELSE IF /\ rm.daily_stats[user_id] # Nothing
                /\ NumLT(Get(rm.daily_stats[user_id]).total_profit_loss,
                         NumNeg(limits.daily_loss_limit))
        THEN deny("Daily loss limit reached")
        \* "Check 4" (mandatory stop-loss / take-profit not set) cannot fire
        \* here: both prices were already required to be greater than zero.
        ELSE IF ~is_paper_trade /\ trade_params.account_id = ""
        THEN deny("Live trade requires bound broker account_id")
        ELSE IF ~is_paper_trade /\ ~trade_params.server_side_stop_loss
        THEN deny("Server-side Stop-Loss protection must remain enabled")
        ELSE IF ~is_paper_trade /\ ~trade_params.server_side_take_profit
        THEN deny("Server-side Take-Profit protection must remain enabled")
        ELSE [ok |-> TRUE, reason |-> "Trade validation passed"]

\* trade_id is f"trade_{user_id}_{datetime.now().timestamp()}": a fresh name.
execute_trade_with_safety(rm, user_id, trade_params, trade_id, t) ==
    LET verdict == validate_trade(rm, user_id, trade_params)
        trade == [trade_id |-> trade_id,
                  pair |-> trade_params.pair,
                  action |-> trade_params.action,
                  entry_price |-> trade_params.entry_price,
                  stop_loss |-> trade_params.stop_loss,
                  take_profit |-> trade_params.take_profit,
                  position_size |-> trade_params.position_size,
                  status |-> "open",
                  exit_price |-> Nothing,
                  profit_loss |-> Nothing,
                  is_paper_trade |-> trade_params.is_paper_trade]
        stats == IF rm.daily_stats[user_id] = Nothing
                 THEN DailyTradingStats(t \div SecondsPerDay)
                 ELSE Get(rm.daily_stats[user_id])
    IN  IF ~verdict.ok
        THEN [rm |-> rm, success |-> FALSE, reason |-> verdict.reason]
        ELSE [rm |-> [rm EXCEPT
                        !.active_trades[user_id] = Append(@, trade),
                        !.daily_stats[user_id] =
                            Some([stats EXCEPT !.total_trades = @ + 1])],
              success |-> TRUE, reason |-> "Trade executed successfully"]

\* index of the first trade of the list with this id, 0 when there is none
FindTrade(trades, trade_id) ==
    LET hits == {i \in 1..Len(trades) : trades[i].trade_id = trade_id}
    IN  IF hits = {} THEN 0 ELSE CHOOSE i \in hits : \A j \in hits : i <= j

close_trade(rm, user_id, trade_id, exit_price, t) ==
    LET active_trades == rm.active_trades[user_id]
        i == FindTrade(active_trades, trade_id)
        trade == active_trades[i]
        \* profit_loss / position_size, the amount that goes to the ledgers
        per_unit == IF trade.action = "BUY"
                    THEN NumSub(exit_price, trade.entry_price)
                    ELSE NumSub(trade.entry_price, exit_price)
        \* profit_loss = per_unit * position_size, position_size > 0
        profit_loss == [sign |-> NumSign(per_unit), per_unit |-> per_unit,
                        position_size |-> trade.position_size]
        closed == [trade EXCEPT !.exit_price = Some(exit_price),
                                !.profit_loss = Some(profit_loss),
                                !.status = "closed"]
        rm1 == [rm EXCEPT !.active_trades[user_id][i] = closed]
        rm2 == IF rm1.daily_stats[user_id] = Nothing THEN rm1
               ELSE [rm1 EXCEPT !.daily_stats[user_id] =
                       Some([Get(@) EXCEPT
                          !.total_profit_loss = NumAdd(@, per_unit),
                          !.winning_trades = IF profit_loss.sign > 0 THEN @ + 1 ELSE @,
                          !.losing_trades = IF profit_loss.sign > 0 THEN @ ELSE @ + 1])]
        week_key == _get_week_key(t)
        rm3 == [rm2 EXCEPT !.weekly_profit_loss[user_id] =
                   DictPut(@, week_key, NumAdd(DictGet(@, week_key, Zero), per_unit))]
    IN  IF i = 0
        THEN [rm |-> rm, success |-> FALSE, reason |-> "Trade not found"]
        ELSE [rm |-> Bind(rm3, LAMBDA booked :
                        _apply_budget_and_autonomy(booked, user_id, t)),
              success |-> TRUE, reason |-> "Trade closed"]

\* ------------------------------------------------------------- Kill Switch
\* the kill switch that raises the flag and leaves the trades as they are
activate_without_closing(rm, user_id) ==
    [rm EXCEPT
       !.kill_switch_active[user_id] = TRUE,
       !.daily_stats[user_id] =
           IF @ = Nothing THEN @
           ELSE Some([Get(@) EXCEPT !.kill_switch_triggered = TRUE])]

activate_kill_switch(rm, user_id) ==
    [rm EXCEPT
       !.kill_switch_active[user_id] = TRUE,
       !.active_trades[user_id] =
           [i \in DOMAIN @ |-> IF @[i].status = "open"
                               THEN [@[i] EXCEPT !.status = "closed_emergency"]
                               ELSE @[i]],
       !.daily_stats[user_id] =
           IF @ = Nothing THEN @
           ELSE Some([Get(@) EXCEPT !.kill_switch_triggered = TRUE])]

\* the limits get_risk_assessment installs for a user who has none
DefaultRiskLimits == RiskLimits(10000, Units(10), 5, 20)

get_risk_assessment(rm, user_id, t) ==
    Bind(IF rm.user_limits[user_id] = Nothing
         THEN initialize_user_limits(rm, user_id, DefaultRiskLimits, t)
         ELSE rm, LAMBDA rm1 :
    _apply_budget_and_autonomy(rm1, user_id, t))

\* ================================================================== inputs
Proposal(pair, action, entry, stop, target, paper) ==
    [pair |-> pair, action |-> action,
     entry_price |-> entry, stop_loss |-> stop, take_profit |-> target,
     position_size |-> 1000, risk_percent |-> Nothing,
     is_paper_trade |-> paper, account_id |-> "",
     broker_fail_safe_confirmed |-> TRUE,
     server_side_stop_loss |-> TRUE, server_side_take_profit |-> TRUE]

\* BUY USD/JPY at 150.00, stop 149.00, target 152.00
LiveTrade ==
    Proposal("USD/JPY", "BUY", Num(1500000, 0), Num(1490000, 0), Num(1520000, 0), FALSE)
PaperTrade == [LiveTrade EXCEPT !.is_paper_trade = TRUE]
\* the same order with the entry moved by 4e-9
NudgedTrade == [LiveTrade EXCEPT !.entry_price = Num(1500000, 4)]
\* the same order with the stop moved to 149.20
AlteredTrade == [LiveTrade EXCEPT !.stop_loss = Num(1492000, 0)]
\* stop 147.00: 2% of entry at risk
RiskyTrade == [LiveTrade EXCEPT !.stop_loss = Num(1470000, 0)]
\* target 151.00: a reward/risk of 1.0
LowRatioTrade == [LiveTrade EXCEPT !.take_profit = Num(1510000, 0)]

PaperMissing == [error |-> TRUE]
PaperSummary(trades, win, dd, age) ==
    [error |-> FALSE, total_trades |-> trades, win_rate_percent |-> win,
     max_drawdown_percent |-> dd, age_days |-> age]
PaperPassing == PaperSummary(25, 600, 80, 10)
PaperStellar == PaperSummary(50, 700, 50, 30)
PaperFailing == PaperSummary(5, 400, 150, 1)
\* 40 trades, 65% won, a drawdown of 8.4%: seven tenths of the default 12%
PaperAtMargin == PaperSummary(40, 650, 84, 10)
\* 25 trades, 60% won, 8% drawdown, but an account of 3 days
PaperYoung == PaperSummary(25, 600, 80, 3)

\* a probation request: 30 trades, 60% won, 10% drawdown, 7 days
StrictPolicy ==
    [min_paper_trades |-> 30, min_win_rate_percent |-> 600,
     max_drawdown_percent |-> 100, min_active_days |-> 7]

DeepStudy(volatility, score, coverage) ==
    Some([volatility |-> volatility, consensus_score |-> score,
          coverage_ratio |-> coverage])
StudyCalm == DeepStudy("low", 50, 90)
StudyThin == DeepStudy("high", 50, 30)
StudySwing == DeepStudy("low", 80, 90)

\* snapshots for the monitor: calm markets with consensus 0.32, 0.60 and 0.61,
\* a volatile one with coverage 0.30 and one with coverage exactly 0.45
AnomalyStudies ==
    {DeepStudy("low", 32, 90), DeepStudy("low", 60, 90), DeepStudy("low", 61, 90),
     DeepStudy("high", 60, 30), DeepStudy("high", 60, 45)}

UserLimits == RiskLimits(5000, Units(5), 1, 20)

\* proposals for the sanity validator: EUR/USD around 1.1000 and USD/JPY
\* around 150.00, with stops on and off the 0.2% and 5.0% limits and targets
\* on and off a reward/risk of 1.2
EurEntry == Num(11000, 0)
EurStops ==
    {Num(u, 0) : u \in {10999, 10978, 10950, 10450, 10400, 11050, 11022, 11550}}
EurTargets ==
    {Num(u, 0) : u \in {11120, 11060, 11055, 11050, 10945, 10940, 10880}}
JpyEntry == Num(1500000, 0)
JpyStops ==
    {Num(u, 0) : u \in {1497000, 1490000, 1425000, 1510000, 1503000, 1575000}}
JpyTargets ==
    {Num(u, 0) : u \in {1520000, 1512000, 1510000, 1488000, 1480000}}

ValidationProposals ==
    {Proposal("EUR/USD", action, EurEntry, stop, target, TRUE) :
        action \in {"BUY", "SELL"}, stop \in EurStops, target \in EurTargets}
    \cup
    {Proposal("USD/JPY", action, JpyEntry, stop, target, TRUE) :
        action \in {"BUY", "SELL"}, stop \in JpyStops, target \in JpyTargets}
    \cup
    {LiveTrade, [LiveTrade EXCEPT !.account_id = "acct-1"]}

\* risk_budget requests: a weekly loss limit of 2.0, a drawdown limit of 0.0
WeeklyBudget == [RiskBudget EXCEPT !.weekly_loss_limit_percent = Units(2)]
DrawdownBudget == [RiskBudget EXCEPT !.max_drawdown_percent = 0]

\* ====================================================== SubscriptionService
\* the users of the subscription service: a customer and a developer account
Subscribers == {"u1", "dev_1"}

_PLAN_ORDER == [free |-> 0, premium |-> 1, enterprise |-> 2]

\* feature-level minimum plans when the paywall is enabled
_FEATURE_MIN_PLAN ==
    [live_broker_execution |-> "premium",
     full_autonomy |-> "premium",
     api_key_management |-> "premium"]

_normalize_plan(plan) ==
    LET value == StripLower(plan)
    IN  IF value \in DOMAIN _PLAN_ORDER THEN value ELSE "free"

_normalize_status(status) ==
    LET value == StripLower(status)
    IN  IF value \in {"active", "trialing", "past_due", "cancelled"} THEN value
        ELSE "active"

\* firestore is Nothing when no client can be had, else the documents of the
\* user_subscriptions collection
NewSubscriptionService(paywall, dev_bypass, self_service, firestore) ==
    [subscriptions_by_user |-> [u \in Subscribers |-> Nothing],
     paywall_enabled |-> paywall,
     allow_dev_bypass |-> dev_bypass,
     allow_self_service_management |-> self_service,
     firestore |-> firestore]

_default_subscription(user_id) ==
    [user_id |-> user_id, plan |-> "free", status |-> "active", source |-> "default"]

_load_from_firestore(svc, user_id) ==
    IF svc.firestore = Nothing THEN Nothing
    ELSE LET doc == Get(svc.firestore)[user_id]
         IN  IF doc = Nothing THEN Nothing
             ELSE Some([user_id |-> user_id,
                        plan |-> _normalize_plan(Get(doc).plan),
                        status |-> _normalize_status(Get(doc).status),
                        source |-> Get(doc).source])

_persist(svc, subscription) ==
    IF svc.firestore = Nothing THEN svc
    ELSE [svc EXCEPT !.firestore =
             Some([Get(@) EXCEPT ![subscription.user_id] =
                      Some([plan |-> subscription.plan,
                            status |-> subscription.status,
                            source |-> subscription.source])])]

get_subscription(svc, user_id) ==
    LET cached == svc.subscriptions_by_user[user_id]
        loaded == _load_from_firestore(svc, user_id)
        fresh == IF loaded = Nothing THEN _default_subscription(user_id) ELSE Get(loaded)
    IN  IF cached # Nothing
        THEN [svc |-> svc, subscription |-> Get(cached)]
        ELSE [svc |-> [svc EXCEPT !.subscriptions_by_user[user_id] = Some(fresh)],
              subscription |-> fresh]

set_subscription(svc, user_id, plan, status, source) ==
    LET got == get_subscription(svc, user_id)
        updated == [got.subscription EXCEPT !.plan = _normalize_plan(plan),
                                            !.status = _normalize_status(status),
                                            !.source = source]
    IN  _persist([got.svc EXCEPT !.subscriptions_by_user[user_id] = Some(updated)],
                 updated)

_compare_plan_rank(current_plan, required_plan) ==
    _PLAN_ORDER[_normalize_plan(current_plan)] >= _PLAN_ORDER[_normalize_plan(required_plan)]

\* the decision that looks at the plan and not at the status
check_ignoring_status(svc, user_id, feature) ==
    LET feature_key == StripLower(feature)
        got == get_subscription(svc, user_id)
        plan == _normalize_plan(got.subscription.plan)
        status == _normalize_status(got.subscription.status)
        required_plan == IF feature_key \in DOMAIN _FEATURE_MIN_PLAN
                         THEN _FEATURE_MIN_PLAN[feature_key] ELSE None
        decision(allowed, reason) ==
            [svc |-> got.svc, allowed |-> allowed, reason |-> reason,
             feature |-> feature_key, required_plan |-> required_plan,
             plan |-> plan, status |-> status]
    IN  IF ~svc.paywall_enabled THEN decision(TRUE, "paywall_disabled")
        ELSE IF svc.allow_dev_bypass /\ StartsWithDev(user_id)
        THEN decision(TRUE, "dev_bypass")
        ELSE IF required_plan = None THEN decision(TRUE, "unrestricted_feature")
        ELSE IF _compare_plan_rank(plan, required_plan)
        THEN decision(TRUE, "plan_sufficient")
        ELSE decision(FALSE, "plan_upgrade_required")

check_feature_access(svc, user_id, feature) ==
    LET feature_key == StripLower(feature)
        got == get_subscription(svc, user_id)
        plan == _normalize_plan(got.subscription.plan)
        status == _normalize_status(got.subscription.status)
        required_plan == IF feature_key \in DOMAIN _FEATURE_MIN_PLAN
                         THEN _FEATURE_MIN_PLAN[feature_key] ELSE None
        decision(allowed, reason) ==
            [svc |-> got.svc, allowed |-> allowed, reason |-> reason,
             feature |-> feature_key, required_plan |-> required_plan,
             plan |-> plan, status |-> status]
    IN  IF ~svc.paywall_enabled THEN decision(TRUE, "paywall_disabled")
        ELSE IF svc.allow_dev_bypass /\ StartsWithDev(user_id)
        THEN decision(TRUE, "dev_bypass")
        ELSE IF required_plan = None THEN decision(TRUE, "unrestricted_feature")
        ELSE IF status \notin {"active", "trialing"}
        THEN decision(FALSE, "inactive_subscription")
        ELSE IF _compare_plan_rank(plan, required_plan)
        THEN decision(TRUE, "plan_sufficient")
        ELSE decision(FALSE, "plan_upgrade_required")

PaymentRequired == 402

\* the decision, and the status code of the HTTPException when one is raised
ensure_feature_access(svc, user_id, feature) ==
    LET decision == check_feature_access(svc, user_id, feature)
    IN  [svc |-> decision.svc, decision |-> decision,
         raised |-> IF decision.allowed THEN Nothing ELSE Some(PaymentRequired)]

\* ============================================================ initial state
NewService(explain) ==
    [user_limits |-> [u \in Users |-> Nothing],
     daily_stats |-> [u \in Users |-> Nothing],
     active_trades |-> [u \in Users |-> <<>>],
     kill_switch_active |-> [u \in Users |-> FALSE],
     probation_policy |-> [u \in Users |-> ProbationPolicy],
     risk_budgets |-> [u \in Users |-> RiskBudget],
     weekly_profit_loss |-> [u \in Users |-> [w \in {} |-> Zero]],
     autonomy_state |-> [u \in Users |-> AutonomyState],
     pending_explain_tokens |-> [k \in {} |-> Nothing],
     require_broker_fail_safe |-> TRUE,
     require_explain_token |-> explain,
     allow_dev_probation_bypass |-> FALSE]

\* What a handler was given and what it returned: the proposal of the request,
\* the paper summary and the deep study the handler fetched for it, and
\* admitted, what can_execute_autonomous_trade decided when the handler
\* called it.  For POST /risk/execute-trade the token
\* fields describe the consume call the handler made: token presented,
\* whether a token was required, whether the clock was past the token's
\* expires_at, whether the token had been consumed before, and how the price
\* fields compare with those of the proposal the token was issued for.
Returned(op, user, ok, gate) ==
    [op |-> op, user |-> user, ok |-> ok, gate |-> gate, admitted |-> FALSE,
     paused |-> FALSE, token |-> NoToken, consumed |-> FALSE, required |-> FALSE,
     late |-> FALSE, reused |-> FALSE, prices |-> "same",
     trade_params |-> Nothing, paper_summary |-> Nothing, deep_study |-> Nothing,
     pause_before |-> IF user \in Users
                      THEN risk_manager.autonomy_state[user].pause_reason
                      ELSE None,
     level_before |-> IF user \in Users
                      THEN risk_manager.autonomy_state[user].level
                      ELSE None,
     window_before |-> IF user \in Users
                       THEN risk_manager.autonomy_state[user].recent_consensus_scores
                       ELSE <<>>,
     feature |-> None, raised |-> Nothing,
     trade_id |-> 0, exit_price |-> Nothing]

\* history: the number of clock steps and closes so far, every token an
\* issue call stored, the tokens a consume that required one has accepted,
\* the users blocked by the kill switch, the users whose latest
\* configured level is manual, and the calendar day of each user's latest
\* successful close (-1 before the first)
NewLedger ==
    [events |-> 0, token_seq |-> 0,
     issued |-> [k \in {} |-> Nothing],
     accepted |-> {},
     refused |-> {},
     closed_day |-> [u \in Users |-> -1],
     kill_block |-> [u \in Users |-> FALSE],
     manual_hold |-> [u \in Users |-> FALSE]]

\* the service as constructed under the default environment
Init ==
    /\ risk_manager = NewService(TRUE)
    /\ now = 0
    /\ inflight = {}
    /\ last = Returned("start", None, TRUE, None)
    /\ ledger = NewLedger
    /\ subscription_service = NewSubscriptionService(FALSE, TRUE, FALSE, Nothing)

\* ========================================================== route handlers
TokenRequired(rm, trade_params) ==
    rm.require_explain_token /\ ~trade_params.is_paper_trade

\* the answers of consume_explain_execution_token to a token that is stored and
\* unused but late, another user's, or issued for another proposal
TokenMismatches ==
    {"Explain execution token user mismatch",
     "Trade parameters changed after explain-before-execute"}

TokenRejections == {"Explain execution token expired"} \cup TokenMismatches

\* the token was issued and the clock is past its expires_at
Late(token, t) ==
    token \in DOMAIN ledger.issued /\ t > ledger.issued[token].expires_at

\* a consume that required a token has accepted this token before
Reused(token) == token \in ledger.accepted

PriceFields(trade_params) ==
    <<trade_params.entry_price, trade_params.stop_loss, trade_params.take_profit>>

RoundedPriceFields(trade_params) ==
    <<Round8(trade_params.entry_price), Round8(trade_params.stop_loss),
      Round8(trade_params.take_profit)>>

\* the price fields against those of the proposal the token was issued for:
\* "same", "below_rounding" (they differ, but not once rounded to 8 decimal
\* places) or "changed"
Repriced(token, trade_params) ==
    IF token \notin DOMAIN ledger.issued THEN "same"
    ELSE LET issued == ledger.issued[token].trade_params
         IN  IF PriceFields(trade_params) = PriceFields(issued) THEN "same"
             ELSE IF RoundedPriceFields(trade_params) = RoundedPriceFields(issued)
             THEN "below_rounding"
             ELSE "changed"

\* POST /risk/initialize-limits
InitializeRiskLimits(user_id, limits) ==
    /\ risk_manager' = initialize_user_limits(risk_manager, user_id, limits, now)
    /\ last' = Returned("initialize_risk_limits", user_id, TRUE, None)
    /\ ledger' = [ledger EXCEPT !.kill_block[user_id] = FALSE]
    /\ UNCHANGED <<now, inflight, subscription_service>>

\* POST /risk/validate-trade
ValidateTrade(user_id, trade_params) ==
    LET verdict == validate_trade(risk_manager, user_id, trade_params)
    IN  /\ last' = [Returned("validate_trade", user_id, verdict.ok, verdict.reason)
                      EXCEPT !.trade_params = Some(trade_params)]
        /\ UNCHANGED <<risk_manager, now, inflight, ledger, subscription_service>>

\* execute_trade_with_safety and what follows it in POST /risk/execute-trade
RecordTrade(rm, user_id, trade_params, seen, book) ==
    \E ex \in {execute_trade_with_safety(rm, user_id, trade_params,
                                         Len(rm.active_trades[user_id]) + 1, now)} :
        IF ~ex.success
        THEN /\ risk_manager' = ex.rm
             /\ last' = [seen EXCEPT !.ok = FALSE, !.gate = "validation"]
             /\ ledger' = book
        ELSE /\ ledger.events < MaxEvents
             /\ risk_manager' = get_risk_assessment(ex.rm, user_id, now)
             /\ last' = [seen EXCEPT !.ok = TRUE, !.gate = "recorded"]
             /\ ledger' = [book EXCEPT !.events = @ + 1]

\* POST /risk/execute-trade, from the guardrail check to the broker call
ExecuteTrade(user_id, trade_params, token, paper_summary, deep_study) ==
    \E ce \in {can_execute_autonomous_trade(risk_manager, user_id, trade_params,
                                            paper_summary, deep_study, now)} :
    \E co \in {consume_explain_execution_token(ce.rm, user_id, trade_params, token, now)} :
    LET denied == [Returned("execute_trade", user_id, FALSE, ce.gate)
                     EXCEPT !.token = token,
                            !.paused = ce.rm.autonomy_state[user_id].paused,
                            !.trade_params = Some(trade_params),
                            !.paper_summary = Some(paper_summary),
                            !.deep_study = Some(deep_study)]
        seen == [denied EXCEPT !.gate = co.reason,
                               !.admitted = TRUE,
                               !.consumed = co.ok,
                               !.required = TokenRequired(risk_manager, trade_params),
                               !.late = Late(token, now),
                               !.reused = Reused(token),
                               !.prices = Repriced(token, trade_params)]
        book == IF TokenRequired(risk_manager, trade_params)
                THEN [ledger EXCEPT !.accepted = @ \cup {token}]
                ELSE ledger
    IN  /\ IF ~ce.ok
           THEN /\ risk_manager' = get_risk_assessment(ce.rm, user_id, now)
                /\ last' = denied
                /\ UNCHANGED <<inflight, ledger>>
           ELSE IF ~co.ok
           THEN /\ risk_manager' = co.rm
                /\ last' = seen
                /\ ledger' = IF co.reason \in TokenRejections
                              THEN [ledger EXCEPT !.refused = @ \cup {<<token, co.reason>>}]
                              ELSE ledger
                /\ UNCHANGED inflight
           ELSE IF trade_params.is_paper_trade
           THEN /\ RecordTrade(co.rm, user_id, trade_params, seen, book)
                /\ UNCHANGED inflight
           ELSE /\ risk_manager' = co.rm
                /\ inflight' = inflight \cup
                      {[user_id |-> user_id, trade_params |-> trade_params, token |-> token]}
                /\ last' = [seen EXCEPT !.ok = TRUE, !.gate = "broker"]
                /\ ledger' = book
        /\ UNCHANGED <<now, subscription_service>>

\* POST /risk/execute-trade, from the broker's answer on
BrokerReturns(request, success) ==
    LET seen == [Returned("execute_trade", request.user_id, FALSE, "broker_failed")
                   EXCEPT !.token = request.token, !.admitted = TRUE,
                          !.trade_params = Some(request.trade_params)]
    IN  /\ request \in inflight
        /\ inflight' = inflight \ {request}
        /\ IF ~success
           THEN /\ last' = seen
                /\ UNCHANGED <<risk_manager, ledger>>
           ELSE RecordTrade(risk_manager, request.user_id,
                            [request.trade_params EXCEPT !.account_id = "acct-1"],
                            seen, ledger)
        /\ UNCHANGED <<now, subscription_service>>

\* POST /risk/close-trade
CloseTrade(user_id, trade_id, exit_price) ==
    \E cl \in {close_trade(risk_manager, user_id, trade_id, exit_price, now)} :
        /\ cl.success => ledger.events < MaxEvents
        /\ risk_manager' = get_risk_assessment(cl.rm, user_id, now)
        /\ last' = [Returned("close_trade", user_id, cl.success, cl.reason)
                      EXCEPT !.trade_id = trade_id, !.exit_price = Some(exit_price)]
        /\ ledger' = IF cl.success
                     THEN [ledger EXCEPT !.events = @ + 1,
                                         !.closed_day[user_id] = now \div SecondsPerDay]
                     ELSE ledger
        /\ UNCHANGED <<now, inflight, subscription_service>>

\* POST /risk/kill-switch
ActivateKillSwitch(user_id) ==
    /\ risk_manager' = activate_kill_switch(risk_manager, user_id)
    /\ last' = Returned("activate_kill_switch", user_id, TRUE, None)
    /\ ledger' = [ledger EXCEPT !.kill_block[user_id] = TRUE]
    /\ UNCHANGED <<now, inflight, subscription_service>>

\* GET /risk/assessment/{user_id}
GetRiskAssessment(user_id) ==
    /\ risk_manager' = get_risk_assessment(risk_manager, user_id, now)
    /\ last' = Returned("get_risk_assessment", user_id, TRUE, None)
    /\ UNCHANGED <<now, inflight, ledger, subscription_service>>

\* the level words for which the configure route asks the feature gate
FullAutonomyWords == {"full", "unleashed", "autonomous", "hands_free"}

\* POST /autonomy/guardrails/configure
ConfigureAutonomyGuardrails(user_id, probation, risk_budget, level) ==
    \E ensured \in {IF StripLower(level) \in FullAutonomyWords
                    THEN ensure_feature_access(subscription_service, user_id,
                                               "full_autonomy")
                    ELSE [svc |-> subscription_service, raised |-> Nothing]} :
        /\ subscription_service' = ensured.svc
        /\ IF ensured.raised # Nothing
           THEN /\ last' = [Returned("configure_autonomy_guardrails", user_id, FALSE,
                                     "plan_upgrade_required")
                              EXCEPT !.feature = "full_autonomy",
                                     !.raised = ensured.raised]
                /\ UNCHANGED <<risk_manager, ledger>>
           ELSE /\ risk_manager' =
                      configure_autonomy_guardrails(risk_manager, user_id, probation,
                                                    risk_budget, level, now)
                /\ last' = Returned("configure_autonomy_guardrails", user_id, TRUE, None)
                /\ ledger' = IF StripLower(level) \in Levels
                             THEN [ledger EXCEPT !.manual_hold[user_id] =
                                      (StripLower(level) = "manual")]
                             ELSE ledger
        /\ UNCHANGED <<now, inflight>>

\* GET /autonomy/guardrails/{user_id}
GetAutonomyGuardrails(user_id) ==
    /\ risk_manager' = get_autonomy_guardrails(risk_manager, user_id, now)
    /\ last' = Returned("get_autonomy_guardrails", user_id, TRUE, None)
    /\ UNCHANGED <<now, inflight, ledger, subscription_service>>

\* POST /autonomy/explain-before-execute
ExplainBeforeExecute(user_id, trade_params, paper_summary, deep_study) ==
    \E ce \in {can_execute_autonomous_trade(risk_manager, user_id, trade_params,
                                            paper_summary, deep_study, now)} :
    \E rm1 \in {get_risk_assessment(ce.rm, user_id, now)} :
    \E meta \in {issue_explain_execution_token(rm1, user_id, trade_params, ce.ok,
                                               ledger.token_seq + 1, now)} :
    LET token == ledger.token_seq + 1
        stored == token \in DOMAIN meta.rm.pending_explain_tokens
    IN  /\ stored => ledger.token_seq < MaxTokens
        /\ risk_manager' = meta.rm
        /\ last' = [Returned("explain_before_execute", user_id, ce.ok, ce.gate)
                      EXCEPT !.admitted = ce.ok,
                             !.paused = ce.rm.autonomy_state[user_id].paused,
                             !.token = meta.token,
                             !.required = meta.required,
                             !.trade_params = Some(trade_params),
                             !.paper_summary = Some(paper_summary),
                             !.deep_study = Some(deep_study)]
        /\ ledger' = IF ~stored THEN ledger
                     ELSE [ledger EXCEPT
                             !.token_seq = token,
                             !.issued = DictPut(@, token,
                                 [user_id |-> user_id,
                                  trade_params |-> trade_params,
                                  guard_passed |-> ce.ok,
                                  expires_at |-> meta.rm.pending_explain_tokens[token].expires_at])]
        /\ UNCHANGED <<now, inflight, subscription_service>>

\* GET /risk/analytics/{user_id}
GetTradingAnalytics(user_id) ==
    /\ last' = Returned("get_trading_analytics", user_id,
                        risk_manager.daily_stats[user_id] # Nothing, None)
    /\ UNCHANGED <<risk_manager, now, inflight, ledger, subscription_service>>

\* the clock moves on by d seconds
Tick(d) ==
    /\ ledger.events < MaxEvents
    /\ now' = now + d
    /\ ledger' = [ledger EXCEPT !.events = @ + 1]
    /\ last' = Returned("tick", None, TRUE, None)
    /\ UNCHANGED <<risk_manager, inflight, subscription_service>>

\* ========================================================= specifications
\* --- explain-before-execute hand-off: two users, both routes, the broker
TokenTick == (2 * explain_token_ttl_seconds) \div 3

NextToken ==
    \/ \E p \in {LiveTrade, PaperTrade}, paper \in {PaperPassing, PaperFailing} :
          ExplainBeforeExecute("u1", p, paper, Nothing)
    \/ \E p \in {LiveTrade, NudgedTrade, AlteredTrade, PaperTrade},
          token \in 0..ledger.token_seq + 1 :
          ExecuteTrade("u1", p, token, PaperPassing, Nothing)
    \/ \E token \in 1..ledger.token_seq + 1 :
          ExecuteTrade("u2", LiveTrade, token, PaperPassing, Nothing)
    \/ \E request \in inflight, success \in BOOLEAN : BrokerReturns(request, success)
    \/ Tick(TokenTick)

SpecToken == Init /\ [][NextToken]_vars

\* --- governance of one user: limits, trades, budgets, probation, anomaly
\* pauses, the kill switch and the inspection calls
GovTick == AnomalyPauseSeconds

\* a close of the USD/JPY trade at 146.90, 3.10 under its entry
LossExit == Num(1469000, 0)

Next ==
    \/ InitializeRiskLimits("u1", UserLimits)
    \/ ValidateTrade("u1", PaperTrade)
    \/ \E deep \in {Nothing, StudyThin} :
          ExecuteTrade("u1", PaperTrade, NoToken, PaperMissing, deep)
    \/ \E paper \in {PaperFailing, PaperPassing, PaperStellar},
          deep \in {Nothing, StudyThin} :
          ExecuteTrade("u1", LiveTrade, NoToken, paper, deep)
    \/ ExecuteTrade("u1", RiskyTrade, NoToken, PaperStellar, Nothing)
    \/ \E trade_id \in 1..Len(risk_manager.active_trades["u1"]) + 1 :
          CloseTrade("u1", trade_id, LossExit)
    \/ ActivateKillSwitch("u1")
    \/ GetRiskAssessment("u1")
    \/ GetAutonomyGuardrails("u1")
    \/ GetTradingAnalytics("u1")
    \/ \E level \in {"manual", "full_auto"} :
          ConfigureAutonomyGuardrails("u1", Nothing, Nothing, level)
    \/ Tick(GovTick)

Spec == Init /\ [][Next]_vars

\* --- the risk budgets of one user: daily, weekly and drawdown limits, closes
\* that move the ledgers, and weeks that roll over
BudgetTick == SecondsPerWeek

\* closes of the USD/JPY trade at 146.90, 147.80 and 150.90.  The ledgers
\* add (exit - entry) * size / size in binary floating point; the sums of these
\* closes fall on no budget limit or seven tenths of one, so they compare with
\* the limits as the exact sums do.
ExitPrices == {LossExit, Num(1478000, 0), Num(1509000, 0)}

NextBudget ==
    \/ InitializeRiskLimits("u1", UserLimits)
    \/ \E risk_budget \in {RiskBudget, WeeklyBudget, DrawdownBudget} :
          ConfigureAutonomyGuardrails("u1", Nothing, Some(risk_budget), None)
    \/ \E level \in {"manual", "guarded_auto"} :
          ConfigureAutonomyGuardrails("u1", Nothing, Nothing, level)
    \/ \E p \in {PaperTrade, LiveTrade} :
          ExecuteTrade("u1", p, NoToken, PaperStellar, Nothing)
    \/ \E trade_id \in 1..Len(risk_manager.active_trades["u1"]) + 1,
          exit_price \in ExitPrices :
          CloseTrade("u1", trade_id, exit_price)
    \/ GetRiskAssessment("u1")
    \/ GetAutonomyGuardrails("u1")
    \/ Tick(BudgetTick)

SpecBudget == Init /\ [][NextBudget]_vars

\* --- probation of one user: policies, levels and track records
PaperRecords ==
    {PaperMissing, PaperFailing, PaperYoung, PaperPassing, PaperAtMargin, PaperStellar}

NextProbation ==
    \/ \E policy \in {ProbationPolicy, StrictPolicy} :
          ConfigureAutonomyGuardrails("u1", Some(policy), Nothing, None)
    \/ \E level \in Levels :
          ConfigureAutonomyGuardrails("u1", Nothing, Nothing, level)
    \/ \E p \in {LiveTrade, PaperTrade}, paper \in PaperRecords :
          ExecuteTrade("u1", p, NoToken, paper, Nothing)
    \/ \E paper \in PaperRecords :
          ExplainBeforeExecute("u1", LiveTrade, paper, Nothing)

SpecProbation == Init /\ [][NextProbation]_vars

\* --- the sanity validator of one user: proposals against limits, the kill
\* switch and an open position
NextValidate ==
    \/ InitializeRiskLimits("u1", UserLimits)
    \/ \E p \in ValidationProposals : ValidateTrade("u1", p)
    \/ ExecuteTrade("u1", PaperTrade, NoToken, PaperMissing, Nothing)
    \/ \E trade_id \in 1..Len(risk_manager.active_trades["u1"]) + 1 :
          CloseTrade("u1", trade_id, LossExit)
    \/ ActivateKillSwitch("u1")

SpecValidate == Init /\ [][NextValidate]_vars

\* --- live orders of one user on their way to the broker and back
NextBroker ==
    \/ InitializeRiskLimits("u1", UserLimits)
    \/ \E p \in {LiveTrade, LowRatioTrade} :
          ExplainBeforeExecute("u1", p, PaperPassing, Nothing)
    \/ \E p \in {LiveTrade, LowRatioTrade}, token \in 0..ledger.token_seq :
          ExecuteTrade("u1", p, token, PaperPassing, Nothing)
    \/ \E request \in inflight, success \in BOOLEAN : BrokerReturns(request, success)
    \/ \E p \in {LiveTrade, LowRatioTrade} :
          ValidateTrade("u1", [p EXCEPT !.account_id = "acct-1"])
    \/ ActivateKillSwitch("u1")
    \/ GetRiskAssessment("u1")

SpecBroker == Init /\ [][NextBroker]_vars

\* --- the anomaly and drift monitor of one user: snapshot after snapshot
NextAnomaly ==
    \/ \E deep \in AnomalyStudies \cup {Nothing} :
          ExplainBeforeExecute("u1", PaperTrade, PaperMissing, deep)
    \/ GetAutonomyGuardrails("u1")

SpecAnomaly == Init /\ [][NextAnomaly]_vars

\* --- anomaly and drift pauses of one user and the clock that outlasts them
PauseStudies ==
    {DeepStudy("low", 61, 90), DeepStudy("low", 32, 90), DeepStudy("high", 32, 30)}

NextPause ==
    \/ \E deep \in PauseStudies :
          ExplainBeforeExecute("u1", PaperTrade, PaperMissing, deep)
    \/ GetAutonomyGuardrails("u1")
    \/ Tick(GovTick)

SpecPause == Init /\ [][NextPause]_vars

\* ================================================================== claims
\* C1 (as stated): every consume that presents a token after a successful
\* consume of that token fails, whatever proposal is presented.
C1_SecondConsumeAlwaysFails ==
    (last.op = "execute_trade" /\ last.reused) => ~last.consumed

\* C1 (amended): with explain tokens enabled, a consume that presents an
\* already consumed token together with a non-simulated proposal fails, so at
\* most one such call succeeds per token.
C1_SecondRequiredConsumeFails ==
    (last.op = "execute_trade" /\ last.reused /\ last.required) => ~last.consumed

C1_Witness ==
    /\ last.op = "execute_trade" /\ last.reused /\ last.required
    /\ last.gate = "Explain execution token already used"

\* C2 (as stated): for a non-simulated proposal with explain tokens enabled,
\* a consume whose proposal differs in any price field from the proposal the
\* token was issued for fails.
C2_AnyPriceChangeFails ==
    (last.op = "execute_trade" /\ last.required /\ last.prices # "same")
        => ~last.consumed

\* C2 (amended): for a non-simulated proposal with explain tokens enabled, a
\* consume whose proposal differs from the issued one in a price field, once
\* both are rounded to 8 decimal places, fails.
C2_RoundedPriceChangeFails ==
    (last.op = "execute_trade" /\ last.required /\ last.prices = "changed")
        => ~last.consumed

C2_Witness ==
    /\ last.op = "execute_trade" /\ last.required /\ last.prices = "changed"
    /\ last.gate = "Trade parameters changed after explain-before-execute"

TokenProof(user_id, token, matches(_)) ==
    /\ token \in DOMAIN risk_manager.pending_explain_tokens
    /\ token \in DOMAIN ledger.issued
    /\ LET token_data == risk_manager.pending_explain_tokens[token]
           issue == ledger.issued[token]
       IN  /\ issue.guard_passed
           /\ issue.user_id = user_id
           /\ matches(_trade_fingerprint(issue.trade_params))
           /\ token_data.used
           /\ token_data.user_id = user_id
           /\ matches(token_data.fingerprint)
           /\ token_data.created_at <= Get(token_data.used_at)
           /\ Get(token_data.used_at) <= token_data.expires_at

LatestTrade(user_id) ==
    risk_manager.active_trades[user_id][Len(risk_manager.active_trades[user_id])]

LiveTradeRecorded ==
    /\ last.op = "execute_trade" /\ last.gate = "recorded"
    /\ ~LatestTrade(last.user).is_paper_trade

\* C4: with explain tokens enabled, every non-simulated trade handed to the
\* broker or recorded as a TradeExecution has behind it a token that an
\* admitted explain request of the same user stored for a proposal with the
\* same fingerprint and that was consumed before its expiry; and no issue call
\* with guard_passed false or a simulated proposal ever stores a token.
C4_ExplainedBeforeExecuted ==
    risk_manager.require_explain_token =>
        /\ \A r \in inflight :
              LET same(fp) == fp = _trade_fingerprint(r.trade_params)
              IN  TokenProof(r.user_id, r.token, same)
        /\ LiveTradeRecorded => last.admitted
        /\ LiveTradeRecorded =>
              LET trade == LatestTrade(last.user)
                  same(fp) == /\ fp.pair = trade.pair
                              /\ fp.action = trade.action
                              /\ fp.entry_price = Round8(trade.entry_price)
                              /\ fp.stop_loss = Round8(trade.stop_loss)
                              /\ fp.take_profit = Round8(trade.take_profit)
                              /\ fp.position_size = trade.position_size
                              /\ fp.is_paper_trade = trade.is_paper_trade
              IN  TokenProof(last.user, last.token, same)
        /\ \A k \in DOMAIN risk_manager.pending_explain_tokens :
              /\ k \in DOMAIN ledger.issued
              /\ ledger.issued[k].guard_passed
              /\ ~ledger.issued[k].trade_params.is_paper_trade

C4_Witness ==
    risk_manager.require_explain_token /\ LiveTradeRecorded

\* the autonomy state of the user the latest handler served
LastState == risk_manager.autonomy_state[last.user]

\* C5: after activate_kill_switch(user), from any prior state, the user's
\* AutonomyState has paused = true and level # full_auto.
C5_KillSwitchPausesAutonomy ==
    last.op = "activate_kill_switch" =>
        LastState.paused /\ LastState.level # "full_auto"

\* C6: once activate_kill_switch(user) has completed, no
\* can_execute_autonomous_trade call for that user returns admit until the
\* user is explicitly reactivated.
C6_NoAdmitAfterKillSwitch ==
    (last.op \in {"execute_trade", "explain_before_execute"} /\ last.admitted)
        => ~ledger.kill_block[last.user]

\* C7: once the kill switch has been activated for a user, validate_trade
\* keeps denying that user through time passing, budget evaluations, closes,
\* anomaly evaluations and inspection calls, until an explicit reactivation.
C7_KillSwitchBlockStays ==
    (last.op = "validate_trade" /\ ledger.kill_block[last.user]) => ~last.ok

\* C8: whenever can_execute_autonomous_trade returns admit, the user's state
\* is not paused at the moment of return, for simulated and non-simulated
\* proposals and at every autonomy level.
C8_AdmitOnlyWhenNotPaused ==
    (last.op \in {"execute_trade", "explain_before_execute"} /\ last.admitted)
        => ~last.paused

\* a non-simulated proposal is admitted at full_auto after the clock moved on
C8_Witness ==
    /\ last.op = "execute_trade" /\ last.admitted /\ last.required
    /\ ~last.paused
    /\ LastState.level = "full_auto"
    /\ now > 0

\* the handlers that end with a budget evaluation of the ledgers they leave
BudgetEvaluations ==
    {"execute_trade", "explain_before_execute", "close_trade",
     "get_autonomy_guardrails", "get_risk_assessment",
     "configure_autonomy_guardrails"}

DailyBreached(user_id) ==
    NumLE(DailyPnl(risk_manager, user_id),
          NumNeg(risk_manager.risk_budgets[user_id].daily_loss_limit_percent))

WeeklyBreached(user_id) ==
    NumLE(WeeklyPnl(risk_manager, user_id, now),
          NumNeg(risk_manager.risk_budgets[user_id].weekly_loss_limit_percent))

DrawdownBreached(user_id) ==
    DailyMaxDrawdown(risk_manager, user_id)
        >= risk_manager.risk_budgets[user_id].max_drawdown_percent

\* C9: after a budget evaluation in which the daily P&L is at or below minus
\* the daily loss limit, or the weekly P&L is at or below minus the weekly
\* loss limit, or the max drawdown is at or above the drawdown limit, the
\* user's state is paused, with the pause reason of a breached budget, at
\* level assisted.
C9_BreachPausesAndDemotes ==
    (/\ last.op \in BudgetEvaluations
     /\ DailyBreached(last.user) \/ WeeklyBreached(last.user) \/ DrawdownBreached(last.user))
        => /\ LastState.paused
           /\ LastState.level = "assisted"
           /\ \/ /\ DailyBreached(last.user)
                 /\ LastState.pause_reason = "Budget pause: daily loss budget breached"
              \/ /\ WeeklyBreached(last.user)
                 /\ LastState.pause_reason = "Budget pause: weekly loss budget breached"
              \/ /\ DrawdownBreached(last.user)
                 /\ LastState.pause_reason = "Budget pause: drawdown budget breached"

\* a close takes the daily P&L to -3.1 against the daily limit of 3.0
C9_Witness ==
    /\ last.op = "close_trade" /\ last.ok
    /\ DailyPnl(risk_manager, last.user) = Num(-31000, 0)
    /\ risk_manager.risk_budgets[last.user].daily_loss_limit_percent = Units(3)
    /\ LastState.paused
    /\ LastState.pause_reason = "Budget pause: daily loss budget breached"
    /\ LastState.level = "assisted"

\* the handlers in which only the Risk Budget Tracker writes the level
TrackerOnly == {"close_trade", "get_autonomy_guardrails", "get_risk_assessment"}

\* C10: in the order manual < assisted < guarded_auto < full_auto, no step of
\* the Risk Budget Tracker and no step of the Anomaly Monitor raises a user's
\* level, from any prior level.
C10_TrackerAndMonitorNeverRaise ==
    [][/\ last'.op \in TrackerOnly =>
            Rank(risk_manager'.autonomy_state[last'.user].level)
                <= Rank(risk_manager.autonomy_state[last'.user].level)
       /\ \A u \in Users, deep_study \in {StudyCalm, StudyThin, StudySwing} :
            Rank(assess_anomaly_and_drift(risk_manager, u, deep_study, now)
                     .rm.autonomy_state[u].level)
                <= Rank(risk_manager.autonomy_state[u].level)]_vars

\* C11: whenever a user's level becomes full_auto, the level immediately
\* before that step was guarded_auto; no single operation takes a user from
\* manual or assisted directly to full_auto.
C11_FullAutoOnlyFromGuarded ==
    [][\A u \in Users :
          (/\ risk_manager'.autonomy_state[u].level = "full_auto"
           /\ risk_manager.autonomy_state[u].level # "full_auto")
              => risk_manager.autonomy_state[u].level = "guarded_auto"]_vars

\* the latest handler asked can_execute_autonomous_trade about a
\* non-simulated proposal
LiveGuardCheck ==
    /\ last.op \in {"execute_trade", "explain_before_execute"}
    /\ last.paper_summary # Nothing
    /\ ~Get(last.trade_params).is_paper_trade

\* the four checks of a track record against a policy
MeetsPolicy(summary, policy) ==
    /\ ~summary.error
    /\ summary.total_trades >= policy.min_paper_trades
    /\ summary.win_rate_percent >= policy.min_win_rate_percent
    /\ summary.max_drawdown_percent <= policy.max_drawdown_percent
    /\ summary.age_days >= policy.min_active_days

\* C12: with the dev probation bypass off, a guardrail check of a
\* non-simulated proposal admits only if the paper summary supplied to that
\* call is available and passes all four checks (trade count, win rate,
\* drawdown, account age) against the user's current policy, whatever earlier
\* calls decided.
C12_AdmitOnlyOnOwnProbation ==
    (LiveGuardCheck /\ last.admitted /\ ~risk_manager.allow_dev_probation_bypass)
        => MeetsPolicy(Get(last.paper_summary),
                       risk_manager.probation_policy[last.user])

\* a non-simulated proposal admitted under the stricter policy
C12_Witness ==
    /\ LiveGuardCheck
    /\ last.admitted
    /\ risk_manager.probation_policy[last.user] = StrictPolicy
    /\ Get(last.paper_summary) = PaperStellar

\* the latest guardrail check of a non-simulated proposal got as far as
\* evaluate_probation
ProbationEvaluated == LiveGuardCheck /\ last.gate \notin {"paused", "manual"}

\* the record passes with the wide margin: twice the trade count, the win
\* rate plus 10 points, seven tenths of the drawdown
WideMargin(summary, policy) ==
    /\ summary.total_trades >= 2 * policy.min_paper_trades
    /\ summary.win_rate_percent >= policy.min_win_rate_percent + 100
    /\ 10 * summary.max_drawdown_percent <= 7 * policy.max_drawdown_percent

LevelAfterProbation(level, summary, policy) ==
    IF ~MeetsPolicy(summary, policy) THEN level
    ELSE IF WideMargin(summary, policy) THEN "full_auto"
    ELSE IF level \in {"manual", "assisted"} THEN "guarded_auto"
    ELSE level

\* C13: the level after evaluate_probation is a function of the prior level
\* and the track record: unchanged if any of the four checks fails;
\* guarded_auto if all pass and the prior level is manual or assisted;
\* full_auto if all pass and the record has at least twice the minimum trade
\* count, the minimum win rate plus 10 points and at most 0.7 times the
\* maximum drawdown.
C13_LevelFollowsRecord ==
    [][ProbationEvaluated'
          => risk_manager'.autonomy_state[last'.user].level
               = LevelAfterProbation(risk_manager.autonomy_state[last'.user].level,
                                     Get(last'.paper_summary),
                                     risk_manager.probation_policy[last'.user])]_vars

\* the latest handler was POST /risk/validate-trade
Validated == last.op = "validate_trade"

\* C14: validate_trade passes a BUY only if stop_loss < entry_price <
\* take_profit and a SELL only if take_profit < entry_price < stop_loss,
\* for every proposal and every user state.
C14_PassOnlyInPriceOrder ==
    (Validated /\ last.ok) =>
        LET p == Get(last.trade_params)
        IN  /\ p.action = "BUY" =>
                 NumLT(p.stop_loss, p.entry_price) /\ NumLT(p.entry_price, p.take_profit)
            /\ p.action = "SELL" =>
                 NumLT(p.take_profit, p.entry_price) /\ NumLT(p.entry_price, p.stop_loss)

\* a SELL that passed
C14_Witness ==
    /\ Validated
    /\ last.ok
    /\ Get(last.trade_params).action = "SELL"

\* reward/risk below 1.2: 5 x the take-profit distance under 6 x the stop
\* distance
RatioBelowMinimum(p) ==
    NumLT(NumScale(5, NumAbs(NumSub(p.take_profit, p.entry_price))),
          NumScale(6, NumAbs(NumSub(p.entry_price, p.stop_loss))))

\* C15: a proposal whose reward/risk ratio (take-profit distance over
\* stop-loss distance) is below 1.2 fails validate_trade, whatever its other
\* fields, the limits and the user state.
C15_LowRewardRiskFails ==
    (Validated /\ RatioBelowMinimum(Get(last.trade_params))) => ~last.ok

\* a proposal sound in everything but its ratio of 1.1, turned down for it
C15_Witness ==
    /\ Validated
    /\ ~last.ok
    /\ last.gate = "Risk-reward ratio too low (minimum 1.2)"
    /\ Get(last.trade_params).stop_loss = Num(10950, 0)
    /\ Get(last.trade_params).take_profit = Num(11055, 0)

\* the stop distance of a proposal is under 0.2% / over 5.0% of its entry
StopUnderMinimum(p) ==
    NumLT(NumScale(500, NumAbs(NumSub(p.entry_price, p.stop_loss))), p.entry_price)

StopOverMaximum(p) ==
    NumLT(p.entry_price, NumScale(20, NumAbs(NumSub(p.entry_price, p.stop_loss))))

\* C16: validate_trade passes only if the stop distance |entry - stop| / entry
\* lies in the closed range [0.2%, 5.0%], and a stop exactly at 0.2% or at
\* 5.0% is not rejected for its distance.
C16_StopDistanceClosedRange ==
    Validated =>
        LET p == Get(last.trade_params)
        IN  /\ last.ok => ~StopUnderMinimum(p) /\ ~StopOverMaximum(p)
            /\ last.gate = "Stop-Loss too close to entry (0.2% minimum)"
                  => StopUnderMinimum(p)
            /\ last.gate = "Stop-Loss too far from entry (5.0% maximum)"
                  => StopOverMaximum(p)

\* the latest handler handed a non-simulated order to the broker
HandedToBroker == last.op = "execute_trade" /\ last.gate = "broker"

\* the latest handler had its order accepted by the broker and went on to
\* execute_trade_with_safety
BrokerAccepted ==
    /\ last.op = "execute_trade"
    /\ last.gate \in {"recorded", "validation"}
    /\ ~Get(last.trade_params).is_paper_trade

\* C17: a non-simulated order is handed to the broker only if validate_trade
\* passes for that proposal, bound to its broker account, in the user's
\* current state; so every order the broker accepts is recorded as a
\* TradeExecution.
C17_ValidatedBeforeBroker ==
    /\ HandedToBroker =>
          validate_trade(risk_manager, last.user,
                         [Get(last.trade_params) EXCEPT !.account_id = "acct-1"]).ok
    /\ BrokerAccepted => last.gate = "recorded"

\* C18: once a user's level has been set to manual, and until a configuration
\* call sets another level, no guardrail check admits a non-simulated
\* proposal of that user, whatever checks, closes, budget evaluations and
\* inspection calls come in between.
C18_ManualAdmitsNothing ==
    (LiveGuardCheck /\ ledger.manual_hold[last.user]) => ~last.admitted

\* the latest guardrail check got as far as assess_anomaly_and_drift with a
\* snapshot
AnomalyAssessed ==
    /\ last.op \in {"execute_trade", "explain_before_execute"}
    /\ last.deep_study \notin {Nothing, Some(Nothing)}
    /\ (last.admitted \/ last.gate = "anomaly")

\* the rolling window of a user, the latest score appended
Window(user_id) == risk_manager.autonomy_state[user_id].recent_consensus_scores

\* C19: assess_anomaly_and_drift reports triggered exactly when the snapshot's
\* volatility is high with a coverage ratio under 0.45, or the rolling window,
\* the new score appended, holds at least 4 observations and its max minus
\* its min is at least 0.28.
C19_TriggeredExactlyOnAnomalyOrDrift ==
    AnomalyAssessed =>
        LET study == Get(Get(last.deep_study))
            w == Window(last.user)
        IN  (last.gate = "anomaly")
               <=> \/ study.volatility = "high" /\ study.coverage_ratio < AnomalyCoverage
                   \/ /\ Len(w) >= DriftMinObservations
                      /\ SeqMax(w) - SeqMin(w) >= DriftRange

\* pause reasons that name drift
DriftPauseReasons ==
    {"Anomaly pause: high volatility + unstable model consensus",
     "Anomaly pause: model drift detected in consensus signals"}

\* C20: a rolling window filled, from empty, by evaluations of one unchanged
\* snapshot has a range of 0, and no drift pause is imposed on its user,
\* however many evaluations were made.
C20_RepeatedSnapshotNoDrift ==
    \A u \in Users :
        (Len(Window(u)) >= 1 /\ SeqMax(Window(u)) = SeqMin(Window(u)))
            => risk_manager.autonomy_state[u].pause_reason \notin DriftPauseReasons

\* one snapshot evaluated often enough to fill the window and roll it
C20_Witness ==
    /\ AnomalyAssessed
    /\ last.admitted
    /\ Len(Window(last.user)) = WindowSize
    /\ SeqMax(Window(last.user)) = SeqMin(Window(last.user))

\* the user is under an anomaly or drift pause whose pause_until has passed
PauseElapsed(user_id) ==
    LET state == risk_manager.autonomy_state[user_id]
    IN  /\ state.paused
        /\ state.pause_reason \in AnomalyPauseReasons
        /\ state.pause_until # Nothing
        /\ now >= Get(state.pause_until)

\* the step is a guardrail evaluation for the user whose snapshot is not
\* anomalous and repeats the last score of the user's window
CalmRepeatEvaluation(user_id) ==
    /\ last'.op \in {"execute_trade", "explain_before_execute"}
    /\ last'.user = user_id
    /\ last'.deep_study \notin {Nothing, Some(Nothing)}
    /\ Window(user_id) # <<>>
    /\ LET study == Get(Get(last'.deep_study))
       IN  /\ ~(study.volatility = "high" /\ study.coverage_ratio < AnomalyCoverage)
           /\ study.consensus_score = Window(user_id)[Len(Window(user_id))]

\* C21: after an anomaly or drift pause, once the clock has passed
\* pause_until, the next guardrail evaluation for the user, given a snapshot
\* that is not anomalous and repeats the last observed consensus score,
\* returns with the user unpaused.
C21_ElapsedPauseLifted ==
    [][\A u \in Users :
          (PauseElapsed(u) /\ CalmRepeatEvaluation(u))
              => ~risk_manager'.autonomy_state[u].paused]_vars

\* the budget metric the pause in place names is at or beyond its limit after
\* the step
StillBreached(user_id) ==
    LET reason == risk_manager.autonomy_state[user_id].pause_reason
    IN  \/ reason = "Budget pause: daily loss budget breached" /\ DailyBreached(user_id)'
        \/ reason = "Budget pause: weekly loss budget breached" /\ WeeklyBreached(user_id)'
        \/ reason = "Budget pause: drawdown budget breached" /\ DrawdownBreached(user_id)'

\* C22: a pause caused by a budget breach is not lifted while the breached
\* metric stays at or beyond its limit: no step, the passage of time and an
\* elapsed pause_until left by an earlier anomaly pause included, takes
\* paused back to false.
C22_BudgetPauseOutlastsClock ==
    [][\A u \in Users :
          (/\ risk_manager.autonomy_state[u].paused
           /\ risk_manager.autonomy_state[u].pause_reason \in BudgetPauseReasons
           /\ StillBreached(u))
              => risk_manager'.autonomy_state[u].paused]_vars

\* a guardrail check finds the budget pause in place after the pause_until of
\* an earlier anomaly pause has passed, and leaves it in place
C22_Witness ==
    /\ last.op = "execute_trade"
    /\ LastState.paused
    /\ LastState.pause_reason \in BudgetPauseReasons
    /\ DailyBreached(last.user)
    /\ LastState.pause_until # Nothing
    /\ now >= Get(LastState.pause_until)

\* C23: when a user is paused for a budget breach and a budget evaluation
\* finds the daily P&L, the weekly P&L and the max drawdown back inside their
\* limits (after trade closes), that evaluation clears paused and the pause
\* reason; no manual reset takes part.
C23_BudgetPauseRecovers ==
    [][\A u \in Users :
          (/\ last'.op \in BudgetEvaluations
           /\ last'.user = u
           /\ risk_manager.autonomy_state[u].paused
           /\ risk_manager.autonomy_state[u].pause_reason \in BudgetPauseReasons
           /\ ~DailyBreached(u)' /\ ~WeeklyBreached(u)' /\ ~DrawdownBreached(u)')
              => /\ ~risk_manager'.autonomy_state[u].paused
                 /\ risk_manager'.autonomy_state[u].pause_reason = None]_vars

\* a profitable close has taken the daily P&L of a user paused for the daily
\* budget back inside the limit, and the close's evaluation lifted the pause
C23_Witness ==
    /\ last.op = "close_trade"
    /\ last.ok
    /\ last.pause_before = "Budget pause: daily loss budget breached"
    /\ NumSign(DailyPnl(risk_manager, last.user)) < 0
    /\ ~DailyBreached(last.user)
    /\ ~LastState.paused
    /\ LastState.pause_reason = None

\* at least seven tenths of the daily, weekly or drawdown limit is consumed
NearLimit(user_id) ==
    LET budget == risk_manager.risk_budgets[user_id]
    IN  \/ NumLE(NumScale(10, DailyPnl(risk_manager, user_id)),
                 NumNeg(NumScale(7, budget.daily_loss_limit_percent)))
        \/ NumLE(NumScale(10, WeeklyPnl(risk_manager, user_id, now)),
                 NumNeg(NumScale(7, budget.weekly_loss_limit_percent)))
        \/ 10 * DailyMaxDrawdown(risk_manager, user_id) >= 7 * budget.max_drawdown_percent

OneStepDown(level) ==
    CASE level = "full_auto" -> "guarded_auto"
      [] level = "guarded_auto" -> "assisted"
      [] OTHER -> level

\* C24: a budget evaluation in which no limit is breached but at least 70% of
\* the daily, weekly or drawdown limit is consumed lowers the level by exactly
\* one step (full_auto to guarded_auto, guarded_auto to assisted), leaves
\* manual and assisted as they are, and does not set paused. The read of the
\* guardrails runs exactly one budget evaluation.
C24_NearLimitOneStepDown ==
    [][\A u \in Users :
          (/\ last'.op = "get_autonomy_guardrails"
           /\ last'.user = u
           /\ ~DailyBreached(u) /\ ~WeeklyBreached(u) /\ ~DrawdownBreached(u)
           /\ NearLimit(u))
              => /\ risk_manager'.autonomy_state[u].level
                        = OneStepDown(risk_manager.autonomy_state[u].level)
                 /\ risk_manager'.autonomy_state[u].paused
                        => risk_manager.autonomy_state[u].paused]_vars

\* a user at full_auto with more than seven tenths of the daily budget lost and
\* no budget breached has been read, and stands at guarded_auto, not paused
C24_Witness ==
    /\ last.op = "get_autonomy_guardrails"
    /\ last.level_before = "full_auto"
    /\ LastState.level = "guarded_auto"
    /\ ~LastState.paused
    /\ NearLimit(last.user)
    /\ ~DailyBreached(last.user) /\ ~WeeklyBreached(last.user)
    /\ ~DrawdownBreached(last.user)

\* a consume that required a token has just accepted the one presented
ConsumeAccepted ==
    /\ last.op = "execute_trade"
    /\ last.required
    /\ last.consumed

\* C25: after consume_explain_execution_token has rejected a token as expired
\* or as mismatched (wrong user or changed trade fingerprint), no later
\* consume of that same token succeeds.
C25_RejectedTokenNeverAccepted ==
    ConsumeAccepted =>
        \A reason \in TokenRejections : <<last.token, reason>> \notin ledger.refused

\* C25, amended: after a rejection as expired no later consume of that token
\* succeeds; a rejection as mismatched leaves the stored tokens as they were,
\* the presented one unused.
C25_ExpiredTokenNeverAccepted ==
    [][/\ ConsumeAccepted' =>
            <<last'.token, "Explain execution token expired">> \notin ledger'.refused
       /\ (last'.op = "execute_trade" /\ last'.admitted /\ last'.gate \in TokenMismatches)
            => /\ risk_manager'.pending_explain_tokens = risk_manager.pending_explain_tokens
               /\ ~risk_manager.pending_explain_tokens[last'.token].used]_vars

\* a token rejected as expired is presented again and is no longer found
C25_Witness ==
    /\ last.op = "execute_trade"
    /\ last.required
    /\ ~last.consumed
    /\ last.gate = "Explain execution token not found"
    /\ <<last.token, "Explain execution token expired">> \in ledger.refused

StatusesOf(user_id) ==
    {risk_manager.active_trades[user_id][i].status :
        i \in DOMAIN risk_manager.active_trades[user_id]}

\* C26: activate_kill_switch can be called and succeeds in every state (a user
\* with no limits, with no trades, with the switch already active included),
\* and when it has returned the switch is set and no TradeExecution of that
\* user has status open.
C26_KillSwitchAlwaysCloses ==
    /\ \A u \in Users : ENABLED ActivateKillSwitch(u)
    /\ last.op = "activate_kill_switch" =>
          /\ last.ok
          /\ risk_manager.kill_switch_active[last.user]
          /\ "open" \notin StatusesOf(last.user)

\* the kill switch has returned for a user who had an open trade, now marked
\* for emergency closure
C26_Witness ==
    /\ last.op = "activate_kill_switch"
    /\ "closed_emergency" \in StatusesOf(last.user)

\* --- the gates of the guardrail check: every proposal kind against failing
\* and stellar records, with and without a thin snapshot, for a user whose
\* level is set, whose trades close at a loss and whose pauses run out
NextGates ==
    \/ \E level \in {"manual", "assisted"} :
          ConfigureAutonomyGuardrails("u1", Nothing, Nothing, level)
    \/ \E p \in {PaperTrade, LiveTrade, RiskyTrade},
          paper \in {PaperFailing, PaperStellar}, deep \in {Nothing, StudyThin} :
          ExecuteTrade("u1", p, NoToken, paper, deep)
    \/ CloseTrade("u1", 1, LossExit)
    \/ Tick(GovTick)

SpecGates == Init /\ [][NextGates]_vars

NonManualLevels == Levels \ {"manual"}

WithLevel(rm, user_id, level) ==
    WithUser(rm, "autonomy_state", user_id,
             [rm.autonomy_state[user_id] EXCEPT !.level = level])

\* the guardrail check has just decided on a proposal of a user who held a
\* level other than manual
DecidedOffManual ==
    /\ last.op \in {"execute_trade", "explain_before_execute"}
    /\ last.paper_summary # Nothing
    /\ last.level_before \in NonManualLevels

\* C27: the admit/deny decision of can_execute_autonomous_trade does not
\* depend on which of the levels assisted, guarded_auto and full_auto the user
\* holds: from the state the check started in with any of the three levels put
\* in place of the user's, the same proposal, paper summary and snapshot give
\* the decision the check gave, denied at the same gate.
C27_DecisionIgnoresLevel ==
    [][DecidedOffManual' =>
          \A level \in NonManualLevels :
             LET other == can_execute_autonomous_trade(
                              WithLevel(risk_manager, last'.user, level), last'.user,
                              Get(last'.trade_params), Get(last'.paper_summary),
                              Get(last'.deep_study), now)
             IN  /\ other.ok = last'.admitted
                 /\ ~other.ok => other.gate = last'.gate]_vars

\* the check admitted a non-simulated proposal of a user at full_auto
C27_Witness ==
    /\ DecidedOffManual
    /\ last.level_before = "full_auto"
    /\ ~Get(last.trade_params).is_paper_trade
    /\ last.admitted

\* --- two users on one service: each runs the routes on state of its own; the
\* limits of a user are the defaults its first trade or assessment creates
NextUsers ==
    \E user_id \in Users :
       \/ ExplainBeforeExecute(user_id, LiveTrade, PaperPassing, Nothing)
       \/ \E p \in {LiveTrade, PaperTrade}, token \in 0..ledger.token_seq :
             ExecuteTrade(user_id, p, token, PaperPassing, Nothing)
       \/ \E request \in inflight, success \in BOOLEAN : BrokerReturns(request, success)
       \/ CloseTrade(user_id, 1, LossExit)
       \/ ActivateKillSwitch(user_id)

SpecUsers == Init /\ [][NextUsers]_vars

\* the stored tokens issued to a user that are unused and not past expires_at
OutstandingTokens(user_id) ==
    {token \in DOMAIN risk_manager.pending_explain_tokens :
        LET token_data == risk_manager.pending_explain_tokens[token]
        IN  /\ token_data.user_id = user_id
            /\ ~token_data.used
            /\ now <= token_data.expires_at}

\* everything the service holds for one user
StateOf(user_id) ==
    [autonomy_state |-> risk_manager.autonomy_state[user_id],
     user_limits |-> risk_manager.user_limits[user_id],
     probation_policy |-> risk_manager.probation_policy[user_id],
     risk_budgets |-> risk_manager.risk_budgets[user_id],
     daily_stats |-> risk_manager.daily_stats[user_id],
     weekly_profit_loss |-> risk_manager.weekly_profit_loss[user_id],
     active_trades |-> risk_manager.active_trades[user_id],
     kill_switch_active |-> risk_manager.kill_switch_active[user_id],
     tokens |-> [token \in OutstandingTokens(user_id) |->
                    risk_manager.pending_explain_tokens[token]]]

\* the execute route has just been given, by one user, an outstanding token of
\* another
PresentedForeignToken ==
    /\ last'.op = "execute_trade"
    /\ last'.paper_summary # Nothing
    /\ \E b \in Users \ {last'.user} : last'.token \in OutstandingTokens(b)

\* every operation run for one user leaves the state of every other user as it
\* was
OthersUntouched ==
    \A b \in Users : (last'.user \in Users \ {b}) => StateOf(b)' = StateOf(b)

\* C28: every operation invoked for user A leaves user B's state unchanged
\* (AutonomyState, limits, budgets, daily and weekly ledgers, trades,
\* kill-switch flag, outstanding tokens); A presenting a token issued to B
\* fails and leaves that token unused and still valid for B.
C28_NoCrossUserEffect ==
    [][/\ OthersUntouched
       /\ PresentedForeignToken => ~last'.ok]_vars

\* C28, amended: every operation invoked for user A leaves user B's state
\* unchanged; A presenting a token issued to B with a non-simulated proposal
\* is refused; with a simulated proposal the token is not looked at and the
\* request goes on, the token left unused and valid for B either way.
C28_NoCrossUserEffectOnLivePath ==
    [][/\ OthersUntouched
       /\ (PresentedForeignToken /\ ~Get(last'.trade_params).is_paper_trade)
             => ~last'.ok /\ ~last'.consumed]_vars

\* a user has presented the other user's outstanding token with a non-simulated
\* proposal, was admitted by the guardrails and refused at the token, which the
\* other user still holds
C28_Witness ==
    /\ last.op = "execute_trade"
    /\ last.admitted
    /\ last.gate = "Explain execution token user mismatch"
    /\ \E b \in Users \ {last.user} :
          /\ last.token \in OutstandingTokens(b)
          /\ risk_manager.active_trades[b] # <<>>

\* --- the feature gate: both paywall settings, both bypass settings, stored
\* documents, plan changes, decisions on gated and ungated features
\* POST /subscription/me/plan
SetSubscription(user_id, plan, status) ==
    /\ IF ~subscription_service.allow_self_service_management /\ ~StartsWithDev(user_id)
       THEN /\ last' = [Returned("set_subscription", user_id, FALSE, "forbidden")
                          EXCEPT !.raised = Some(403)]
            /\ UNCHANGED subscription_service
       ELSE /\ subscription_service' =
                  set_subscription(subscription_service, user_id, plan, status,
                                   "self_service")
            /\ last' = Returned("set_subscription", user_id, TRUE, None)
    /\ UNCHANGED <<risk_manager, now, inflight, ledger>>

\* a decision asked of the service, as the feature matrix and the tests ask it
CheckFeatureAccess(user_id, feature) ==
    \E decision \in {check_feature_access(subscription_service, user_id, feature)} :
        /\ subscription_service' = decision.svc
        /\ last' = [Returned("check_feature_access", user_id, decision.allowed,
                             decision.reason)
                      EXCEPT !.feature = feature]
        /\ UNCHANGED <<risk_manager, now, inflight, ledger>>

\* the gate of a route: live execution, full autonomy, the credential vault
EnsureFeatureAccess(user_id, feature) ==
    \E ensured \in {ensure_feature_access(subscription_service, user_id, feature)} :
        /\ subscription_service' = ensured.svc
        /\ last' = [Returned("ensure_feature_access", user_id, ensured.decision.allowed,
                             ensured.decision.reason)
                      EXCEPT !.feature = feature, !.raised = ensured.raised]
        /\ UNCHANGED <<risk_manager, now, inflight, ledger>>

RawPlans == {"free", " Premium ", "ENTERPRISE", "gold"}
RawStatuses == {"active", "Trialing", "past_due", "expired"}
Features == {"live_broker_execution", " Full_Autonomy ", "credential_vault"}

\* the documents a store may hold when the service starts
StoredDocuments ==
    [u \in Subscribers |->
        IF u = "u1"
        THEN Some([plan |-> "enterprise", status |-> "cancelled", source |-> "firestore"])
        ELSE Nothing]

InitPaywall ==
    /\ risk_manager = NewService(TRUE)
    /\ now = 0
    /\ inflight = {}
    /\ last = Returned("start", None, TRUE, None)
    /\ ledger = NewLedger
    /\ \E paywall \in BOOLEAN, dev_bypass \in BOOLEAN, self_service \in BOOLEAN,
          firestore \in {Nothing, Some(StoredDocuments)} :
          subscription_service =
              NewSubscriptionService(paywall, dev_bypass, self_service, firestore)

NextPaywall ==
    \E user_id \in Subscribers :
       \/ \E plan \in RawPlans, status \in RawStatuses :
             SetSubscription(user_id, plan, status)
       \/ \E feature \in Features : CheckFeatureAccess(user_id, feature)
       \/ \E feature \in Features : EnsureFeatureAccess(user_id, feature)

SpecPaywall == InitPaywall /\ [][NextPaywall]_vars

PlanRank(plan) ==
    CASE plan = "free" -> 0
      [] plan = "premium" -> 1
      [] plan = "enterprise" -> 2

FeatureDecided == last.op \in {"check_feature_access", "ensure_feature_access"}

\* the subscription the service holds for the user of the latest decision
Subscription == Get(subscription_service.subscriptions_by_user[last.user])

\* C29: check_feature_access, for every user and feature: with the paywall
\* disabled everything is allowed; with the paywall enabled and no dev bypass,
\* a feature that has a minimum plan is allowed exactly when the subscription
\* status is active or trialing and the user's plan ranks at least as high as
\* the required plan (free < premium < enterprise), and a feature with no
\* minimum plan is allowed; ensure_feature_access raises HTTP 402 exactly when
\* the decision is not allowed.
C29_FeatureAccessDecision ==
    FeatureDecided =>
        LET feature_key == StripLower(last.feature)
            dev_bypass == subscription_service.allow_dev_bypass /\ StartsWithDev(last.user)
        IN  /\ ~subscription_service.paywall_enabled => last.ok
            /\ (subscription_service.paywall_enabled /\ ~dev_bypass) =>
                  (last.ok <=>
                      (feature_key \in DOMAIN _FEATURE_MIN_PLAN =>
                          /\ Subscription.status \in {"active", "trialing"}
                          /\ PlanRank(Subscription.plan)
                                >= PlanRank(_FEATURE_MIN_PLAN[feature_key])))
            /\ last.op = "ensure_feature_access" =>
                  /\ last.raised = Some(402) <=> ~last.ok
                  /\ last.raised = Nothing <=> last.ok

\* with the paywall on, the gate has raised 402 for a customer on the premium
\* plan whose subscription is past due
C29_Witness ==
    /\ last.op = "ensure_feature_access"
    /\ last.raised = Some(402)
    /\ subscription_service.paywall_enabled
    /\ ~StartsWithDev(last.user)
    /\ Subscription.plan = "premium"
    /\ Subscription.status = "past_due"

\* the pause gate denies: a budget is breached, or a pause that is not a
\* budget pause is in place and has not run out
PausedAtGate(user_id) ==
    LET state == risk_manager.autonomy_state[user_id]
    IN  \/ DailyBreached(user_id) \/ WeeklyBreached(user_id) \/ DrawdownBreached(user_id)
        \/ /\ state.paused
           /\ state.pause_reason \notin BudgetPauseReasons
           /\ ~PauseElapsed(user_id)

\* the first gate, in the order pause, manual level, probation, risk per trade,
\* that denies the proposal; "none" when all four let it through
FirstFailingGate(user_id, trade_params, paper_summary) ==
    IF PausedAtGate(user_id) THEN "paused"
    ELSE IF ~trade_params.is_paper_trade
            /\ risk_manager.autonomy_state[user_id].level = "manual"
    THEN "manual"
    ELSE IF /\ ~trade_params.is_paper_trade
            /\ ~(risk_manager.allow_dev_probation_bypass /\ StartsWithDev(user_id))
            /\ ~MeetsPolicy(paper_summary, risk_manager.probation_policy[user_id])
    THEN "probation"
    ELSE IF RiskExceedsBudget(trade_params, risk_manager.risk_budgets[user_id])
    THEN "risk"
    ELSE "none"

\* C30: can_execute_autonomous_trade runs its gates in the order budget,
\* pause, manual level, probation, risk per trade, anomaly and stops at the
\* first that fails: the denial names the first failing gate, and a call
\* denied at one gate changes nothing that belongs to a later gate.  Denied for
\* pause or manual: probation_passed and last_probation_check are as before
\* and the level is not raised.  Denied for probation or risk per trade: the
\* consensus window is as before, the user is not paused and no pause_until
\* is set.
C30_GatesInOrder ==
    [][(last'.op \in {"execute_trade", "explain_before_execute"}
            /\ last'.paper_summary # Nothing) =>
          LET user_id == last'.user
              first == FirstFailingGate(user_id, Get(last'.trade_params),
                                        Get(last'.paper_summary))
              before == risk_manager.autonomy_state[user_id]
              after == risk_manager'.autonomy_state[user_id]
          IN  /\ first # "none" => (~last'.admitted /\ last'.gate = first)
              /\ first = "none" => (last'.admitted \/ last'.gate = "anomaly")
              /\ (~last'.admitted /\ last'.gate \in {"paused", "manual"}) =>
                    /\ after.probation_passed = before.probation_passed
                    /\ after.last_probation_check = before.last_probation_check
                    /\ Rank(after.level) <= Rank(before.level)
              /\ (~last'.admitted /\ last'.gate \in {"probation", "risk"}) =>
                    /\ after.recent_consensus_scores = before.recent_consensus_scores
                    /\ ~after.paused
                    /\ after.pause_until \in {before.pause_until, Nothing}]_vars

\* a proposal over the per-trade budget, with a record that passes probation
\* and a thin high-volatility snapshot, was denied at the risk gate: the
\* probation is recorded, the window is empty and the user is not paused
C30_Witness ==
    /\ last.op = "execute_trade"
    /\ ~last.admitted
    /\ last.gate = "risk"
    /\ last.deep_study = Some(StudyThin)
    /\ LastState.probation_passed
    /\ LastState.last_probation_check = Some(now)
    /\ LastState.recent_consensus_scores = <<>>
    /\ ~LastState.paused

\* the step is a guardrail check for the user that got as far as
\* assess_anomaly_and_drift with a snapshot
Observes(user_id) ==
    /\ last'.op \in {"execute_trade", "explain_before_execute"}
    /\ last'.user = user_id
    /\ last'.deep_study \notin {Nothing, Some(Nothing)}
    /\ (last'.admitted \/ last'.gate = "anomaly")

\* C31: each user's rolling consensus-score window holds at most 8 entries,
\* and they are the most recent scores the anomaly monitor observed for that
\* user, in observation order: a step in which the monitor observes a
\* snapshot of the user appends its score and keeps the last 8, and every
\* other step leaves the window as it was.
C31_WindowHoldsLatestScores ==
    [][\A u \in Users :
          /\ Len(Window(u)') <= WindowSize
          /\ Window(u)' =
                IF Observes(u)
                THEN LastN(Append(Window(u), Get(Get(last'.deep_study)).consensus_score),
                           WindowSize)
                ELSE Window(u)]_vars

\* a ninth score observed: the oldest one left the window
C31_Witness ==
    /\ AnomalyAssessed
    /\ Len(last.window_before) = WindowSize
    /\ Window(last.user) =
          Append(Tail(last.window_before), Get(Get(last.deep_study)).consensus_score)
    /\ Window(last.user)[1] # last.window_before[1]

\* the step is a successful POST /risk/close-trade of the user
Closes(user_id) ==
    /\ last'.op = "close_trade"
    /\ last'.user = user_id
    /\ last'.ok

\* what the step added to the user's daily ledger and to the ledger of the
\* current week
AddedToDaily(user_id) ==
    NumSub(DailyPnl(risk_manager', user_id), DailyPnl(risk_manager, user_id))

AddedToWeekly(user_id) ==
    NumSub(WeeklyPnl(risk_manager', user_id, now), WeeklyPnl(risk_manager, user_id, now))

\* (exit - entry) / entry x 100 for BUY, its negative for SELL, in 1e-4 of a
\* percent and rounded down; the entry prices of the runs are multiples of 0.1
PercentOfNotional(trade, exit_price) ==
    LET moved == IF trade.action = "BUY"
                 THEN NumSub(exit_price, trade.entry_price)
                 ELSE NumSub(trade.entry_price, exit_price)
    IN  Num((moved.u * 1000) \div (trade.entry_price.u \div 1000), 0)

\* C32: on each successful close_trade the same signed amount is added to the
\* daily ledger and to the current week's ledger, and that amount is the
\* trade's P&L as a percentage of its entry notional (to the 1e-4 of a percent
\* the ledgers of the runs carry).
C32_LedgersTakePercentOfNotional ==
    [][\A u \in Users :
          Closes(u) =>
              LET trade == risk_manager.active_trades[u][last'.trade_id]
                  percent == PercentOfNotional(trade, Get(last'.exit_price))
              IN  /\ AddedToDaily(u) = AddedToWeekly(u)
                  /\ NumLE(NumAbs(NumSub(AddedToDaily(u), percent)), Num(1, 0))]_vars

\* the handlers that read the daily ledger and book nothing into it
DailyLedgerReads ==
    {"validate_trade", "get_autonomy_guardrails", "get_risk_assessment"}

\* the user has closed no trade on the calendar day of the clock
NoCloseToday(user_id) == ledger.closed_day[user_id] # now \div SecondsPerDay

\* C33: the daily P&L that the budget check and validate_trade's daily-loss
\* check read holds only closes made on the day of the read: on a day on which
\* the user has closed nothing it is zero, and the user is not paused for a
\* breached daily loss budget.
C33_DailyLedgerStartsAfreshEachDay ==
    \A u \in Users :
        (last.op \in DailyLedgerReads /\ last.user = u /\ NoCloseToday(u))
            => /\ DailyPnl(risk_manager, u) = Zero
               /\ risk_manager.autonomy_state[u].pause_reason
                     # "Budget pause: daily loss budget breached"

\* --- an anomaly pause of one user with two simulated positions open, and the
\* closes, budget evaluations and inspection calls that follow it
\* limits that allow two open positions
TwoPositionLimits == RiskLimits(5000, Units(5), 2, 20)

\* a close of the USD/JPY trade at 150.90, 0.90 over its entry
GainExit == Num(1509000, 0)

\* the service after POST /risk/execute-trade has recorded a simulated trade
PaperTradeRecorded(rm, user_id) ==
    LET ce == can_execute_autonomous_trade(rm, user_id, PaperTrade, PaperMissing, Nothing, 0)
        co == consume_explain_execution_token(ce.rm, user_id, PaperTrade, NoToken, 0)
        ex == execute_trade_with_safety(co.rm, user_id, PaperTrade,
                                        Len(co.rm.active_trades[user_id]) + 1, 0)
    IN  get_risk_assessment(ex.rm, user_id, 0)

\* the service after limits for two positions and two simulated trades
InitPositions ==
    /\ risk_manager =
          PaperTradeRecorded(
              PaperTradeRecorded(
                  initialize_user_limits(NewService(TRUE), "u1", TwoPositionLimits, 0),
                  "u1"),
              "u1")
    /\ now = 0
    /\ inflight = {}
    /\ last = Returned("start", None, TRUE, None)
    /\ ledger = NewLedger
    /\ subscription_service = NewSubscriptionService(FALSE, TRUE, FALSE, Nothing)

NextPositions ==
    \/ \E deep \in {Nothing, StudyThin} :
          ExplainBeforeExecute("u1", PaperTrade, PaperMissing, deep)
    \/ \E trade_id \in 1..Len(risk_manager.active_trades["u1"]) + 1,
          exit_price \in {LossExit, GainExit} :
          CloseTrade("u1", trade_id, exit_price)
    \/ GetRiskAssessment("u1")
    \/ GetAutonomyGuardrails("u1")
    \/ Tick(GovTick)

SpecPositions == InitPositions /\ [][NextPositions]_vars

\* C34: once the anomaly monitor has paused a user with pause_until = T, the
\* user is paused at every moment before T, whatever trade closes, budget
\* evaluations and inspection calls come in between.
C34_AnomalyPauseLastsUntilDeadline ==
    \A u \in Users :
        LET state == risk_manager.autonomy_state[u]
        IN  (state.pause_until # Nothing /\ now < Get(state.pause_until))
                => state.paused

\* the inspection operations
Inspections == {"get_autonomy_guardrails", "get_risk_assessment"}

\* the user's level, paused flag and pause reason
Standing(user_id) ==
    LET state == risk_manager.autonomy_state[user_id]
    IN  <<state.level, state.paused, state.pause_reason>>

\* C35: an inspection call (get_autonomy_guardrails or get_risk_assessment)
\* that comes straight after an inspection call for the same user leaves the
\* user's level, paused flag and pause reason as the first call left them.
C35_InspectionIdempotent ==
    [][\A u \in Users :
          (/\ last.op \in Inspections /\ last.user = u
           /\ last'.op \in Inspections /\ last'.user = u)
              => Standing(u)' = Standing(u)]_vars

\* the user's daily ledger: P&L, trade count, wins and losses (zeros when the
\* user has no DailyTradingStats yet)
DailyLedger(user_id) ==
    LET stats == IF risk_manager.daily_stats[user_id] = Nothing
                 THEN DailyTradingStats(0)
                 ELSE Get(risk_manager.daily_stats[user_id])
    IN  <<stats.total_profit_loss, stats.total_trades,
          stats.winning_trades, stats.losing_trades>>

\* C36: initialize_user_limits replaces only the user's RiskLimits: the
\* user's daily ledger, list of open trades and kill-switch flag are the same
\* after the call as before it.
C36_LimitsLeaveLedgerTradesAndKillSwitch ==
    [][\A u \in Users :
          (last'.op = "initialize_risk_limits" /\ last'.user = u)
              => /\ DailyLedger(u)' = DailyLedger(u)
                 /\ risk_manager'.active_trades[u] = risk_manager.active_trades[u]
                 /\ risk_manager'.kill_switch_active[u]
                       = risk_manager.kill_switch_active[u]]_vars

\* the number of the user's trades whose status is open
OpenPositions(user_id) ==
    Cardinality({i \in 1..Len(risk_manager.active_trades[user_id]) :
                    risk_manager.active_trades[user_id][i].status = "open"})

\* C37: validate_trade's open-positions check counts only trades that are
\* still open: a proposal is rejected for too many open positions only when
\* the trades of the user that are neither closed nor emergency-closed number
\* max_open_positions or more.
C37_OnlyOpenTradesCount ==
    (last.op = "validate_trade" /\ last.gate = "Already at max open positions")
        => OpenPositions(last.user)
             >= Get(risk_manager.user_limits[last.user]).max_open_positions

\* the step is a POST /risk/close-trade of the user that names a trade which
\* is closed, or was emergency-closed, already
ClosesAgain(user_id) ==
    /\ last'.op = "close_trade"
    /\ last'.user = user_id
    /\ last'.trade_id \in 1..Len(risk_manager.active_trades[user_id])
    /\ risk_manager.active_trades[user_id][last'.trade_id].status # "open"

\* C38: close_trade succeeds at most once per trade: a close of a trade that
\* is already closed, or emergency-closed by the kill switch, returns an error
\* and leaves the daily ledger, the weekly ledger and the win/loss counts
\* unchanged.
C38_ClosedTradeNotClosedAgain ==
    [][\A u \in Users :
          ClosesAgain(u)
              => /\ ~last'.ok
                 /\ DailyLedger(u)' = DailyLedger(u)
                 /\ risk_manager'.weekly_profit_loss[u]
                       = risk_manager.weekly_profit_loss[u]]_vars

\* the user's DailyTradingStats.max_drawdown (tenths of a percent) as a
\* ledger amount
DrawdownRead(user_id) == Num(1000 * DailyMaxDrawdown(risk_manager, user_id), 0)

\* C39: the drawdown figure read by the budget check follows the recorded
\* closes: it is at least the decline of the daily ledger from its peak.  The
\* ledger starts the day at zero, so its peak is at least zero and the
\* drawdown figure is at least the loss the ledger shows.
C39_DrawdownFollowsCloses ==
    \A u \in Users :
        NumLE(NumNeg(DailyPnl(risk_manager, u)), DrawdownRead(u))

\* --- the configure route behind the paywall: one customer, plan changes and
\* level requests in the words the route and the engine know
LevelRequests == {"manual", "guarded_auto", "full_auto", " Full_Auto ", "Full"}

InitGated ==
    /\ risk_manager = NewService(TRUE)
    /\ now = 0
    /\ inflight = {}
    /\ last = Returned("start", None, TRUE, None)
    /\ ledger = NewLedger
    /\ \E self_service \in BOOLEAN, firestore \in {Nothing, Some(StoredDocuments)} :
          subscription_service =
              NewSubscriptionService(TRUE, FALSE, self_service, firestore)

NextGated ==
    \/ \E plan \in {"free", " Premium "}, status \in {"active", "past_due"} :
          SetSubscription("u1", plan, status)
    \/ \E level \in LevelRequests :
          ConfigureAutonomyGuardrails("u1", Nothing, Nothing, level)
    \/ EnsureFeatureAccess("u1", "full_autonomy")
    \/ GetAutonomyGuardrails("u1")

SpecGated == InitGated /\ [][NextGated]_vars

\* C40: with the paywall enabled and no dev bypass, the configuration endpoint
\* sets a user's level to full_auto only for a user who has access to the
\* full_autonomy feature.
C40_FullAutoOnlyWithFeature ==
    (/\ subscription_service.paywall_enabled
     /\ ~subscription_service.allow_dev_bypass
     /\ last.op = "configure_autonomy_guardrails"
     /\ last.ok
     /\ last.level_before # "full_auto"
     /\ risk_manager.autonomy_state[last.user].level = "full_auto")
        => check_feature_access(subscription_service, last.user, "full_autonomy").allowed

====
